---------------------------- MODULE Spec2Model ----------------------------
(***************************************************************************)
(* Optika: the optical propagation engine (calculateLaserPathsForSource,   *)
(* findClosestIntersection and the geometry kernel) and the recompute      *)
(* effect of App that aggregates the per-source results.                   *)
(*                                                                         *)
(* Numbers.  The program computes in IEEE doubles; the model computes in   *)
(* exact rational arithmetic.  A number is a pair <<n, d>> in lowest terms *)
(* with d > 0.  Scenes are chosen so that every square root the code takes *)
(* is the root of a perfect square (axis-aligned or 3-4-5 oriented         *)
(* surfaces, unit directions with rational components); Sqrt has no value  *)
(* elsewhere, and TLC stops with an error instead of guessing one.         *)
(***************************************************************************)
EXTENDS Integers, Sequences, FiniteSets, TLC

(***************************************************************************)
(* Rational arithmetic (the arithmetic of the source's number type).       *)
(***************************************************************************)
Abs(n) == IF n < 0 THEN -n ELSE n

RECURSIVE GCD(_, _)
GCD(a, b) == IF b = 0 THEN a ELSE GCD(b, a % b)

\* the rational n/d in lowest terms, d # 0
Q(n, d) ==
    LET g == GCD(Abs(n), Abs(d))
        s == IF d < 0 THEN -1 ELSE 1
    IN  <<s * (n \div g), s * (d \div g)>>

I(n) == <<n, 1>>

RNeg(a) == <<-a[1], a[2]>>

RAdd(a, b) ==
    LET g == GCD(a[2], b[2])
        n == a[1] * (b[2] \div g) + b[1] * (a[2] \div g)
        h == GCD(Abs(n), g)
    IN  <<n \div h, (a[2] \div g) * (b[2] \div h)>>

RSub(a, b) == RAdd(a, RNeg(b))

RMul(a, b) ==
    LET g1 == GCD(Abs(a[1]), b[2])
        g2 == GCD(Abs(b[1]), a[2])
    IN  <<(a[1] \div g1) * (b[1] \div g2), (a[2] \div g2) * (b[2] \div g1)>>

\* a / b, b # 0
RDiv(a, b) ==
    RMul(a, IF b[1] < 0 THEN <<-b[2], -b[1]>> ELSE <<b[2], b[1]>>)

RSign(a) == IF a[1] > 0 THEN 1 ELSE IF a[1] < 0 THEN -1 ELSE 0

\* n1/d1 < n2/d2 for d1, d2 > 0, decided on the integer parts and then on
\* the reciprocals of the fractional parts, so that no product is formed
RECURSIVE LtFrac(_, _, _, _)
LtFrac(n1, d1, n2, d2) ==
    LET q1 == n1 \div d1
        q2 == n2 \div d2
        r1 == n1 % d1
        r2 == n2 % d2
    IN  IF q1 # q2 THEN q1 < q2
        ELSE IF r2 = 0 THEN FALSE
        ELSE IF r1 = 0 THEN TRUE
        ELSE LtFrac(d2, r2, d1, r1)

RLt(a, b) == LtFrac(a[1], a[2], b[1], b[2])

RLe(a, b) == ~RLt(b, a)

RAbs(a) == <<Abs(a[1]), a[2]>>

\* floor of the square root of a natural number
RECURSIVE ISqrtIn(_, _, _)
ISqrtIn(n, lo, hi) ==
    IF lo >= hi THEN lo
    ELSE LET mid == (lo + hi + 1) \div 2
         IN  IF mid <= n \div mid THEN ISqrtIn(n, mid, hi)
                                  ELSE ISqrtIn(n, lo, mid - 1)

ISqrt(n) == ISqrtIn(n, 0, IF n < 46340 THEN n ELSE 46340)

\* Math.sqrt of a non-negative rational that is a perfect square
Sqrt(a) ==
    CHOOSE r \in {<<ISqrt(a[1]), ISqrt(a[2])>>} :
        r[1] * r[1] = a[1] /\ r[2] * r[2] = a[2]

\* the least k with k * (2 * hi + k) >= sq, for lo <= k <= up
RECURSIVE LegOver(_, _, _, _)
LegOver(sq, hi, lo, up) ==
    IF lo >= up THEN lo
    ELSE LET mid == (lo + up) \div 2
         IN  IF mid >= (sq + 2 * hi + mid - 1) \div (2 * hi + mid)
             THEN LegOver(sq, hi, lo, mid)
             ELSE LegOver(sq, hi, mid + 1, up)

\* sqrt(a*a + b*b) for naturals 0 < a <= b whose sum of squares is a perfect
\* square h*h: h - b is the k with k * (2b + k) = a*a, so b*b is never formed
HypotInt(a, b) ==
    CHOOSE h \in {b + LegOver(a * a, b, 0, a)} :
        (h - b) * (b + h) = a * a

\* sqrt(x*x + y*y), formed as |x| * sqrt(1 + (y/x)^2) on the reduced ratio
Hypot(x, y) ==
    IF x[1] = 0 THEN RAbs(y)
    ELSE IF y[1] = 0 THEN RAbs(x)
    ELSE LET r == RAbs(RDiv(y, x))
             h == IF r[1] <= r[2] THEN HypotInt(r[1], r[2])
                                  ELSE HypotInt(r[2], r[1])
         IN  RMul(RAbs(x), <<h, r[2]>>)

(***************************************************************************)
(* Configuration constants.                                                *)
(***************************************************************************)
GAME_WIDTH == 800
GAME_HEIGHT == 600
MAX_REFLECTIONS == 10
MAX_PLACED_MIRRORS == 5
EPSILON == <<1, 1000000>>
GRATING_K_CONSTANT == <<7, 20>>

\* Math.cos(DETECTOR_ACCEPTANCE_ANGLE_DEGREES * Math.PI / 180) is
\* 0.984807...; the rational carried for it is 69167/70225 = 0.984934...,
\* the cosine of the angle by which a mirror along (264, 23)/265 turns a
\* ray, so that a mirror can put a ray exactly on the edge of the cone.
acceptanceThresholdCosine == <<69167, 70225>>

(***************************************************************************)
(* Vector / geometry kernel.  A Point is [x |-> number, y |-> number].     *)
(* A result that may be null is a sequence: <<>> for null, <<v>> for v.    *)
(***************************************************************************)
Pt(x, y) == [x |-> x, y |-> y]
P(x, y) == Pt(I(x), I(y))

distance(p1, p2) == Hypot(RSub(p1.x, p2.x), RSub(p1.y, p2.y))

subtractPoints(p1, p2) == Pt(RSub(p1.x, p2.x), RSub(p1.y, p2.y))

addPoints(p1, p2) == Pt(RAdd(p1.x, p2.x), RAdd(p1.y, p2.y))

scaleVector(v, s) == Pt(RMul(v.x, s), RMul(v.y, s))

\* v divided by its magnitude mag
normalizeBy(v, mag) ==
    IF RLt(mag, EPSILON) THEN Pt(I(0), I(0))
    ELSE Pt(RDiv(v.x, mag), RDiv(v.y, mag))

normalizeVector(v) == normalizeBy(v, Hypot(v.x, v.y))

dotProduct(v1, v2) == RAdd(RMul(v1.x, v2.x), RMul(v1.y, v2.y))

\* the point at parameter t1 of the ray, if t1 and the parameter t2 of the
\* segment are in range
segmentPointAt(rayOrigin, rayDirection, t1, t2) ==
    IF /\ RLe(RNeg(EPSILON), t1)
       /\ RLe(RNeg(EPSILON), t2)
       /\ RLe(t2, RAdd(I(1), EPSILON))
    THEN <<addPoints(rayOrigin, scaleVector(rayDirection, t1))>>
    ELSE <<>>

\* parallel lines meet at the origin of the ray
segmentSolveAtOrigin(rayOrigin, rayDirection, v1, v2, v3, dot_v2_v3) ==
    IF RLt(RAbs(dot_v2_v3), EPSILON) THEN <<rayOrigin>>
    ELSE segmentPointAt(rayOrigin, rayDirection,
             RDiv(RSub(RMul(v2.x, v1.y), RMul(v2.y, v1.x)), dot_v2_v3),
             RDiv(dotProduct(v1, v3), dot_v2_v3))

segmentSolve(rayOrigin, rayDirection, v1, v2, v3, dot_v2_v3) ==
    IF RLt(RAbs(dot_v2_v3), EPSILON) THEN <<>>
    ELSE segmentPointAt(rayOrigin, rayDirection,
             RDiv(RSub(RMul(v2.x, v1.y), RMul(v2.y, v1.x)), dot_v2_v3),
             RDiv(dotProduct(v1, v3), dot_v2_v3))

raySegmentIntersection(rayOrigin, rayDirection, s1, s2) ==
    segmentSolve(rayOrigin, rayDirection,
                 subtractPoints(rayOrigin, s1), subtractPoints(s2, s1),
                 Pt(RNeg(rayDirection.y), rayDirection.x),
                 dotProduct(subtractPoints(s2, s1),
                            Pt(RNeg(rayDirection.y), rayDirection.x)))

\* the nearer of the two crossings t0 <= t1 that lies ahead of the origin
circlePointAt(rayOrigin, rayDirection, t0, t1) ==
    IF RLt(t0, EPSILON)
    THEN IF RLt(t1, EPSILON) THEN <<>>
         ELSE <<addPoints(rayOrigin, scaleVector(rayDirection, t1))>>
    ELSE <<addPoints(rayOrigin, scaleVector(rayDirection, t0))>>

\* if (t0 > t1) [t0, t1] = [t1, t0]
circleOrdered(rayOrigin, rayDirection, a, b) ==
    IF RLt(b, a) THEN circlePointAt(rayOrigin, rayDirection, b, a)
    ELSE circlePointAt(rayOrigin, rayDirection, a, b)

circleCrossings(rayOrigin, rayDirection, tca, thc) ==
    circleOrdered(rayOrigin, rayDirection, RSub(tca, thc), RAdd(tca, thc))

circleSolve(rayOrigin, rayDirection, tca, d2, r2) ==
    IF RLt(r2, d2) THEN <<>>
    ELSE circleCrossings(rayOrigin, rayDirection, tca, Sqrt(RSub(r2, d2)))

circleAlong(rayOrigin, rayDirection, L, tca, radius) ==
    circleSolve(rayOrigin, rayDirection, tca,
                RSub(dotProduct(L, L), RMul(tca, tca)), RMul(radius, radius))

rayCircleIntersection(rayOrigin, rayDirection, circleCenter, radius) ==
    circleAlong(rayOrigin, rayDirection,
                subtractPoints(circleCenter, rayOrigin),
                dotProduct(subtractPoints(circleCenter, rayOrigin), rayDirection),
                radius)

\* dNorm - dotVal * nNorm, normalized: the part of dNorm along the surface
reflectUnitAlongSurface(dNorm, nNorm, dotVal) ==
    normalizeVector(Pt(RSub(dNorm.x, RMul(dotVal, nNorm.x)),
                       RSub(dNorm.y, RMul(dotVal, nNorm.y))))

\* dNorm - 2 * dotVal * nNorm, normalized
reflectUnit(dNorm, nNorm, dotVal) ==
    normalizeVector(Pt(RSub(dNorm.x, RMul(RMul(I(2), dotVal), nNorm.x)),
                       RSub(dNorm.y, RMul(RMul(I(2), dotVal), nNorm.y))))

reflectNormalized(dNorm, nNorm) ==
    reflectUnit(dNorm, nNorm, dotProduct(dNorm, nNorm))

calculateReflection(incidentDirection, normal) ==
    reflectNormalized(normalizeVector(incidentDirection),
                      normalizeVector(normal))

(***************************************************************************)
(* The four arena boundaries, in the order the query visits them.          *)
(***************************************************************************)
gameBoundaries ==
    << [p1 |-> P(0, 0), p2 |-> P(GAME_WIDTH, 0),
        normal |-> P(0, 1), name |-> "top_boundary"],
       [p1 |-> P(0, GAME_HEIGHT), p2 |-> P(GAME_WIDTH, GAME_HEIGHT),
        normal |-> P(0, -1), name |-> "bottom_boundary"],
       [p1 |-> P(0, 0), p2 |-> P(0, GAME_HEIGHT),
        normal |-> P(1, 0), name |-> "left_boundary"],
       [p1 |-> P(GAME_WIDTH, 0), p2 |-> P(GAME_WIDTH, GAME_HEIGHT),
        normal |-> P(-1, 0), name |-> "right_boundary"] >>

(***************************************************************************)
(* Closest-intersection query.  The raw hits are collected in the order    *)
(* the loops of findClosestIntersection produce them, then folded with     *)
(* updateClosest.  A raw hit is [point, object, type].                     *)
(***************************************************************************)
Hit(pt, object, type) ==
    IF pt = <<>> THEN <<>>
    ELSE <<[point |-> pt[1], object |-> object, type |-> type]>>

\* the four corners of a rectangle or detector, as the code lists them
rectPoints(o) ==
    << Pt(o.x, o.y), Pt(RAdd(o.x, o.width), o.y),
       Pt(RAdd(o.x, o.width), RAdd(o.y, o.height)),
       Pt(o.x, RAdd(o.y, o.height)) >>

RECURSIVE EdgeHits(_, _, _, _, _, _)
EdgeHits(rayOrigin, rayDirection, pts, o, type, i) ==
    IF i > 4 THEN <<>>
    ELSE Hit(raySegmentIntersection(rayOrigin, rayDirection,
                                    pts[i], pts[(i % 4) + 1]), o, type)
         \o EdgeHits(rayOrigin, rayDirection, pts, o, type, i + 1)

ObstacleHits(rayOrigin, rayDirection, obstacle) ==
    IF obstacle.shape = "line"
    THEN Hit(raySegmentIntersection(rayOrigin, rayDirection,
                                    obstacle.p1, obstacle.p2),
             obstacle, "obstacle")
    ELSE IF obstacle.shape = "rectangle"
    THEN EdgeHits(rayOrigin, rayDirection, rectPoints(obstacle),
                  obstacle, "obstacle", 1)
    ELSE IF obstacle.shape = "circle"
    THEN Hit(rayCircleIntersection(rayOrigin, rayDirection,
                                   Pt(obstacle.cx, obstacle.cy),
                                   obstacle.radius),
             obstacle, "obstacle")
    ELSE <<>>

RECURSIVE BoundaryHits(_, _, _)
BoundaryHits(rayOrigin, rayDirection, i) ==
    IF i > Len(gameBoundaries) THEN <<>>
    ELSE Hit(raySegmentIntersection(rayOrigin, rayDirection,
                                    gameBoundaries[i].p1, gameBoundaries[i].p2),
             gameBoundaries[i], "boundary")
         \o BoundaryHits(rayOrigin, rayDirection, i + 1)

RECURSIVE MirrorHits(_, _, _, _)
MirrorHits(rayOrigin, rayDirection, mirrors, i) ==
    IF i > Len(mirrors) THEN <<>>
    ELSE Hit(raySegmentIntersection(rayOrigin, rayDirection,
                                    mirrors[i].p1, mirrors[i].p2),
             mirrors[i], "mirror")
         \o MirrorHits(rayOrigin, rayDirection, mirrors, i + 1)

RECURSIVE AllObstacleHits(_, _, _, _)
AllObstacleHits(rayOrigin, rayDirection, obs, i) ==
    IF i > Len(obs) THEN <<>>
    ELSE ObstacleHits(rayOrigin, rayDirection, obs[i])
         \o AllObstacleHits(rayOrigin, rayDirection, obs, i + 1)

RECURSIVE DetectorHits(_, _, _, _)
DetectorHits(rayOrigin, rayDirection, dets, i) ==
    IF i > Len(dets) THEN <<>>
    ELSE EdgeHits(rayOrigin, rayDirection, rectPoints(dets[i]),
                  dets[i], "detector", 1)
         \o DetectorHits(rayOrigin, rayDirection, dets, i + 1)

\* closest is <<>> or <<IntersectionDetail>>; minDistance is the distance of
\* closest[1] (Infinity while closest is <<>>)
\* the candidate replaces the current one when it is farther
fartherOf(closest, h, dist) ==
    IF /\ RLt(EPSILON, dist)
       /\ (closest = <<>> \/ RLt(closest[1].distance, dist))
    THEN <<[point |-> h.point, distance |-> dist,
            object |-> h.object, type |-> h.type]>>
    ELSE closest

\* a candidate at any distance, zero included, is taken
closerOfFromZero(closest, h, dist) ==
    IF closest = <<>> \/ RLt(dist, closest[1].distance)
    THEN <<[point |-> h.point, distance |-> dist,
            object |-> h.object, type |-> h.type]>>
    ELSE closest

\* a candidate at the same distance replaces the current one
closerOrLevelOf(closest, h, dist) ==
    IF /\ RLt(EPSILON, dist)
       /\ (closest = <<>> \/ RLe(dist, closest[1].distance))
    THEN <<[point |-> h.point, distance |-> dist,
            object |-> h.object, type |-> h.type]>>
    ELSE closest

closerOf(closest, h, dist) ==
    IF /\ RLt(EPSILON, dist)
       /\ (closest = <<>> \/ RLt(dist, closest[1].distance))
    THEN <<[point |-> h.point, distance |-> dist,
            object |-> h.object, type |-> h.type]>>
    ELSE closest

updateClosest(rayOrigin, closest, h) ==
    closerOf(closest, h, distance(rayOrigin, h.point))

RECURSIVE FoldClosest(_, _, _, _)
FoldClosest(rayOrigin, hits, i, closest) ==
    IF i > Len(hits) THEN closest
    ELSE FoldClosest(rayOrigin, hits, i + 1,
                     updateClosest(rayOrigin, closest, hits[i]))

findClosestIntersection(rayOrigin, rayDirection, mirrors, obs, dets) ==
    FoldClosest(rayOrigin,
                BoundaryHits(rayOrigin, rayDirection, 1)
                \o MirrorHits(rayOrigin, rayDirection, mirrors, 1)
                \o AllObstacleHits(rayOrigin, rayDirection, obs, 1)
                \o DetectorHits(rayOrigin, rayDirection, dets, 1),
                1, <<>>)


(***************************************************************************)
(* Trigonometry of the grating branch.  For unit vectors the code's        *)
(* sin(atan2(d) - atan2(n)) is the cross product n x d.  (cos, sin) of     *)
(* asin(s) is irrational for most s: the model takes the rational unit     *)
(* vector with non-negative cosine whose sine is nearest to s among those  *)
(* with denominator at most 125, so that directions stay unit vectors.     *)
(***************************************************************************)
PythagoreanTriples ==
    << <<3, 4, 5>>, <<5, 12, 13>>, <<8, 15, 17>>, <<7, 24, 25>>,
       <<20, 21, 29>>, <<12, 35, 37>>, <<9, 40, 41>>, <<28, 45, 53>>,
       <<11, 60, 61>>, <<16, 63, 65>>, <<33, 56, 65>>, <<48, 55, 73>>,
       <<13, 84, 85>>, <<36, 77, 85>>, <<39, 80, 89>>, <<65, 72, 97>>,
       <<20, 99, 101>>, <<60, 91, 109>>, <<15, 112, 113>>, <<44, 117, 125>> >>

\* the candidate <<cos, sin>> pairs with cos >= 0
UnitGrid ==
    << <<I(1), I(0)>>, <<I(0), I(1)>>, <<I(0), I(-1)>> >>
    \o [i \in 1..(4 * Len(PythagoreanTriples)) |->
          LET t == PythagoreanTriples[((i - 1) \div 4) + 1]
              k == (i - 1) % 4
          IN  IF k = 0 THEN <<Q(t[1], t[3]), Q(t[2], t[3])>>
              ELSE IF k = 1 THEN <<Q(t[1], t[3]), Q(-t[2], t[3])>>
              ELSE IF k = 2 THEN <<Q(t[2], t[3]), Q(t[1], t[3])>>
              ELSE <<Q(t[2], t[3]), Q(-t[1], t[3])>>]

\* of two candidates the one whose sine is nearer to s (the first on a tie)
Nearer(s, u, v) ==
    IF RLt(RAbs(RSub(v[2], s)), RAbs(RSub(u[2], s))) THEN v ELSE u

RECURSIVE NearestSine(_, _, _)
NearestSine(s, lo, hi) ==
    IF lo = hi THEN UnitGrid[lo]
    ELSE LET mid == (lo + hi) \div 2
         IN  Nearer(s, NearestSine(s, lo, mid), NearestSine(s, mid + 1, hi))

\* <<Math.cos(Math.asin(s)), Math.sin(Math.asin(s))>>
CosSinOfAsin(s) == NearestSine(s, 1, Len(UnitGrid))

(***************************************************************************)
(* Ray propagation engine: the branches of one loop iteration.             *)
(* A RayState is [origin, direction, remainingInteractions, parent];       *)
(* parent is a history field, the budget of the state that enqueued it     *)
(* (NoParent for the seed).  Each branch yields the states it pushes.      *)
(***************************************************************************)
NoParent == -1

Ray(origin, direction, remainingInteractions, parent) ==
    [origin |-> origin, direction |-> direction,
     remainingInteractions |-> remainingInteractions, parent |-> parent]

\* the child inherits the budget of its parent
PushSameBudget(nextOrigin, direction, remainingInteractions) ==
    IF remainingInteractions - 1 > 0
    THEN <<Ray(nextOrigin, direction, remainingInteractions,
               remainingInteractions)>>
    ELSE <<>>

\* the gate lets a child through with budget 0
PushAtZero(nextOrigin, direction, remainingInteractions) ==
    IF remainingInteractions - 1 >= 0
    THEN <<Ray(nextOrigin, direction, remainingInteractions - 1,
               remainingInteractions)>>
    ELSE <<>>

\* if (remainingInteractions - 1 > 0) activeRays.push({..., remainingInteractions - 1})
Push(nextOrigin, direction, remainingInteractions) ==
    IF remainingInteractions - 1 > 0
    THEN <<Ray(nextOrigin, direction, remainingInteractions - 1,
               remainingInteractions)>>
    ELSE <<>>

\* the integer nearest to (acc + r/d) * 10^k for 0 <= r < d, halves upwards,
\* by long division
RECURSIVE RoundDigits(_, _, _, _)
RoundDigits(acc, r, d, k) ==
    IF k = 0 THEN (IF r >= d - r THEN acc + 1 ELSE acc)
    ELSE RoundDigits(acc * 10 + ((r * 10) \div d), (r * 10) % d, d, k - 1)

\* toFixed(3): the sign and the rounded thousandths of a number
ToFixed3(a) ==
    <<a[1] < 0, RoundDigits(Abs(a[1]) \div a[2], Abs(a[1]) % a[2], a[2], 3)>>

\* the budget is left out of the key
rayKeyWithoutBudget(ray) ==
    << ToFixed3(ray.origin.x), ToFixed3(ray.origin.y),
       ToFixed3(ray.direction.x), ToFixed3(ray.direction.y), 0 >>

rayKey(ray) ==
    << ToFixed3(ray.origin.x), ToFixed3(ray.origin.y),
       ToFixed3(ray.direction.x), ToFixed3(ray.direction.y),
       ray.remainingInteractions >>

requiredEntryDirection(hitDetector) ==
    IF hitDetector.angle = 0 THEN P(1, 0)
    ELSE IF hitDetector.angle = 90 THEN P(0, 1)
    ELSE IF hitDetector.angle = 180 THEN P(-1, 0)
    ELSE P(0, -1)

\* >= instead of >
AcceptanceTestNonStrict(dotVal) == RLe(acceptanceThresholdCosine, dotVal)

\* dotVal > acceptanceThresholdCosine
AcceptanceTest(dotVal) == RLt(acceptanceThresholdCosine, dotVal)

\* the edge of the detector that faces the required direction
onEntryEdge(nextOrigin, hitDetector) ==
    IF hitDetector.angle = 0 THEN nextOrigin.x = hitDetector.x
    ELSE IF hitDetector.angle = 90 THEN nextOrigin.y = hitDetector.y
    ELSE IF hitDetector.angle = 180
    THEN nextOrigin.x = RAdd(hitDetector.x, hitDetector.width)
    ELSE nextOrigin.y = RAdd(hitDetector.y, hitDetector.height)

\* a hit counts only through the edge that faces the required direction
detectorAcceptsAtEntry(rayOrigin, nextOrigin, hitDetector) ==
    /\ onEntryEdge(nextOrigin, hitDetector)
    /\ AcceptanceTest(
          dotProduct(normalizeVector(subtractPoints(nextOrigin, rayOrigin)),
                     requiredEntryDirection(hitDetector)))

\* every hit of a detector is recorded
detectorAcceptsAny(rayOrigin, nextOrigin, hitDetector) == TRUE

\* the detector branch: whether the hit is recorded in the hit-set
detectorAccepts(rayOrigin, nextOrigin, hitDetector) ==
    AcceptanceTest(
        dotProduct(normalizeVector(subtractPoints(nextOrigin, rayOrigin)),
                   requiredEntryDirection(hitDetector)))

\* the ray goes on through the detector
detectorPassThrough(ray, nextOrigin, hitDetector) ==
    Push(nextOrigin, ray.direction, ray.remainingInteractions)

detectorBranch(ray, nextOrigin, hitDetector) == <<>>

\* the obstacle sends the ray back
obstacleReflects(ray, nextOrigin, obstacle) ==
    Push(nextOrigin, scaleVector(ray.direction, I(-1)),
         ray.remainingInteractions)

obstacleBranch(ray, nextOrigin, obstacle) == <<>>

boundaryBranch(ray, nextOrigin, boundary) ==
    Push(nextOrigin, calculateReflection(ray.direction, boundary.normal),
         ray.remainingInteractions)

\* the normal of the mirror turned to oppose the incoming ray
\* { x: -segmentVector.y, y: segmentVector.x }
perpendicular(segmentVector) == Pt(RNeg(segmentVector.y), segmentVector.x)

\* the unit normal of the segment of a mirror
segmentNormal(mirror) ==
    normalizeVector(perpendicular(subtractPoints(mirror.p2, mirror.p1)))

\* if (dotProduct(scaleVector(rayDirection, -1), n) < 0) n = scaleVector(n, -1)
opposing(rayDirection, n) ==
    IF RSign(dotProduct(scaleVector(rayDirection, I(-1)), n)) < 0
    THEN scaleVector(n, I(-1)) ELSE n

surfaceNormalForReflection(rayDirection, mirror) ==
    opposing(rayDirection, segmentNormal(mirror))

\* a plain mirror leaves the direction as it is
plainStraightOn(ray, nextOrigin, mirror) ==
    Push(nextOrigin, ray.direction, ray.remainingInteractions)

\* a plain mirror lets the beam through as well
plainTransmits(ray, nextOrigin, mirror) ==
    Push(nextOrigin,
         calculateReflection(ray.direction,
                             surfaceNormalForReflection(ray.direction, mirror)),
         ray.remainingInteractions)
    \o Push(nextOrigin, ray.direction, ray.remainingInteractions)

plainBranch(ray, nextOrigin, mirror) ==
    Push(nextOrigin,
         calculateReflection(ray.direction,
                             surfaceNormalForReflection(ray.direction, mirror)),
         ray.remainingInteractions)

\* the transmitted beam is forgotten
beamSplitterReflectOnly(ray, nextOrigin, mirror) ==
    plainBranch(ray, nextOrigin, mirror)

beamSplitterBranch(ray, nextOrigin, mirror) ==
    plainBranch(ray, nextOrigin, mirror)
    \o Push(nextOrigin, ray.direction, ray.remainingInteractions)

\* N_base turned against the incoming ray
normal_for_incidence(rayDirection, N_base) ==
    IF RSign(dotProduct(rayDirection, N_base)) > 0
    THEN scaleVector(N_base, I(-1)) ELSE N_base

sin_theta_i(rayDirection, normal) ==
    RSub(RMul(normal.x, rayDirection.y), RMul(normal.y, rayDirection.x))

sin_theta_m_signed(rayDirection, normal, m) ==
    RSub(sin_theta_i(rayDirection, normal), RMul(I(m), GRATING_K_CONSTANT))

\* normal_for_diffraction turned by the angle whose <<cos, sin>> is cs
diffractedDirection(normal_for_diffraction, cs) ==
    normalizeVector(Pt(RSub(RMul(normal_for_diffraction.x, cs[1]),
                            RMul(normal_for_diffraction.y, cs[2])),
                       RAdd(RMul(normal_for_diffraction.y, cs[1]),
                            RMul(normal_for_diffraction.x, cs[2]))))

\* the evanescent orders are emitted too
diffractedEvanescentToo(ray, nextOrigin, normal_for_diffraction, sine) ==
    Push(nextOrigin,
         diffractedDirection(normal_for_diffraction, CosSinOfAsin(sine)),
         ray.remainingInteractions)

diffractedAtSine(ray, nextOrigin, normal_for_diffraction, sine) ==
    IF RLe(RAbs(sine), I(1))
    THEN Push(nextOrigin,
              diffractedDirection(normal_for_diffraction, CosSinOfAsin(sine)),
              ray.remainingInteractions)
    ELSE <<>>

diffractedFrom(ray, nextOrigin, normal, m) ==
    diffractedAtSine(ray, nextOrigin, scaleVector(normal, I(-1)),
                     sin_theta_m_signed(ray.direction, normal, m))

\* the child of diffraction order m, if the order is not evanescent
diffractedOrder(ray, nextOrigin, mirror, m) ==
    diffractedFrom(ray, nextOrigin,
                   normal_for_incidence(ray.direction, segmentNormal(mirror)),
                   m)

gratingBranch(ray, nextOrigin, mirror) ==
    Push(nextOrigin, ray.direction, ray.remainingInteractions)
    \o diffractedOrder(ray, nextOrigin, mirror, 1)
    \o diffractedOrder(ray, nextOrigin, mirror, -1)

mirrorBranch(ray, nextOrigin, mirror) ==
    IF mirror.type = "default" THEN plainBranch(ray, nextOrigin, mirror)
    ELSE IF mirror.type = "beam-splitter"
    THEN beamSplitterBranch(ray, nextOrigin, mirror)
    ELSE IF mirror.type = "diffraction-grating"
    THEN gratingBranch(ray, nextOrigin, mirror)
    ELSE <<>>

\* the states one intersection pushes
Children(ray, intersection) ==
    IF intersection.type = "detector"
    THEN detectorBranch(ray, intersection.point, intersection.object)
    ELSE IF intersection.type = "obstacle"
    THEN obstacleBranch(ray, intersection.point, intersection.object)
    ELSE IF intersection.type = "boundary"
    THEN boundaryBranch(ray, intersection.point, intersection.object)
    ELSE IF intersection.type = "mirror"
    THEN mirrorBranch(ray, intersection.point, intersection.object)
    ELSE <<>>

\* the far point lies twice the diagonal of the arena away
farPointByDiagonal(ray) ==
    addPoints(ray.origin,
              scaleVector(ray.direction,
                          RMul(I(2), Hypot(I(GAME_WIDTH), I(GAME_HEIGHT)))))

\* the segment drawn when nothing is hit
farPoint(ray) ==
    addPoints(ray.origin,
              scaleVector(ray.direction,
                          I((IF GAME_WIDTH > GAME_HEIGHT THEN GAME_WIDTH
                                                       ELSE GAME_HEIGHT) * 2)))

Segment(start, end) == [start |-> start, end |-> end]


(***************************************************************************)
(* Scenes.  A level is what resetLevel leaves in the state (sources,       *)
(* detectors, obstacles); the placed mirrors are what drops and drags have *)
(* left on the board, drawn from the level's pool.  Level 1 is the state   *)
(* at mount, before the first level is generated.                          *)
(***************************************************************************)
MaxPlaced == 2

Source(id, position, initialDirection) ==
    [id |-> id, position |-> position, initialDirection |-> initialDirection]

Detector(id, x, y, angle) ==
    [id |-> id, x |-> I(x), y |-> I(y), width |-> I(30), height |-> I(30),
     angle |-> angle]

Mirror(id, p1, p2, type) == [id |-> id, p1 |-> p1, p2 |-> p2, type |-> type]

\* sources on the left, top and bottom edges, as resetLevel places them
S1 == Source("s1", P(20, 300), P(1, 0))
S2 == Source("s2", P(20, 120), P(1, 0))
S4 == Source("s4", P(300, 20), P(0, 1))
S5 == Source("s5", P(415, 580), P(0, -1))

\* detectors on the right (angle 0), bottom (90) and top (270) edges
D1 == Detector("d1", 760, 285, 0)
D2 == Detector("d2", 300, 560, 90)
D3 == Detector("d3", 400, 10, 270)
D4 == Detector("d4", 760, 375, 0)

O1 == [id |-> "o1", shape |-> "line", p1 |-> P(650, 280), p2 |-> P(650, 320)]
O2 == [id |-> "o2", shape |-> "rectangle", x |-> I(500), y |-> I(100),
       width |-> I(40), height |-> I(40)]
O3 == [id |-> "o3", shape |-> "circle", cx |-> I(300), cy |-> I(200),
       radius |-> I(25)]

\* mirrors as dropped and then dragged by an end point, each 80 long:
\* across the ray of s1,
G1 == Mirror("g1", P(200, 260), P(200, 340), "diffraction-grating")
B1 == Mirror("b1", P(300, 260), P(300, 340), "beam-splitter")
M1 == Mirror("m1", P(400, 260), P(400, 340), "default")
B2 == Mirror("b2", P(500, 260), P(500, 340), "beam-splitter")
G2 == Mirror("g2", P(600, 260), P(600, 340), "diffraction-grating")
\* along (4, 3)/5 on the ray of s2, sending it into the corner (800, 600),
Mc == Mirror("mc", P(628, 96), P(692, 144), "default")
Bc == Mirror("bc", P(628, 96), P(692, 144), "beam-splitter")
Gc == Mirror("gc", P(628, 96), P(692, 144), "diffraction-grating")
\* along (20, 21)/29 on the ray of s1, sending it down into d2,
Be == Mirror("be", Pt(Q(8625, 29), Q(7860, 29)), Pt(Q(10225, 29), Q(9540, 29)),
             "beam-splitter")
\* along (264, 23)/265 on the ray of s1, sending it to d4 on the edge of the
\* acceptance cone
Bs == Mirror("bs", Pt(Q(11138, 53), Q(15716, 53)),
                   Pt(Q(15362, 53), Q(16084, 53)), "beam-splitter")

Level(srcs, dets, obs, pool) ==
    [sources |-> srcs, detectors |-> dets, obstacles |-> obs, pool |-> pool]

Levels ==
    << Level(<<>>, <<>>, <<>>, <<>>),
       Level(<<S1>>, <<D1, D3>>, <<>>, <<G1, B1, M1, B2, G2>>),
       Level(<<S1, S5>>, <<D1, D2, D3>>, <<>>, <<Be, M1, B2>>),
       Level(<<S1>>, <<D1, D4>>, <<>>, <<Bs>>),
       Level(<<S1, S2, S4>>, <<D1, D2, D3, D4>>, <<O1, O2, O3>>, <<B1, M1>>),
       Level(<<S2>>, <<D1, D3>>, <<>>, <<Mc, Bc, Gc>>),
       Level(<<S5, S1>>, <<D1, D2, D3>>, <<>>, <<Be>>),
       Level(<<S1, S4>>, <<D1, D2>>, <<O3>>, <<B1>>) >>

\* the sub-lists of pool, in pool order, of at most room mirrors
RECURSIVE SubLists(_, _, _)
SubLists(pool, i, room) ==
    IF i > Len(pool) THEN {<<>>}
    ELSE SubLists(pool, i + 1, room)
         \cup (IF room = 0 THEN {}
               ELSE {<<pool[i]>> \o t : t \in SubLists(pool, i + 1, room - 1)})

MirrorChoices(pool) == SubLists(pool, 1, MaxPlaced)

(***************************************************************************)
(* State.                                                                  *)
(***************************************************************************)
VARIABLES
    sources,          \* trackedLaserSources[i].source
    detectors,
    placedMirrors,
    obstacles,
    laserPaths,       \* trackedLaserSources[i].laserPath
    overallSuccess,
    masterCorrectlyHitDetectorIds,
    pc,               \* "effect", "run", "commit" or "idle"
    srcIdx,           \* the source the map of the effect is at
    newMaster,        \* newMasterCorrectlyHitDetectorIds
    newPaths,         \* newTrackedLaserSourcesWithPaths[i].laserPath
    activeRays,
    allSegmentsForThisSource,
    correctlyHitDetectorIdsThisSource,
    processedRayStarts,
    returnedHits,     \* history: the hit-set each finished run returned
    last,             \* history: what the last loop iteration did
    tick,             \* history: the parity of the number of steps taken
    draggingMirrorInfo,   \* <<>> (null) or <<info>>
    isPointerOverTrash,
    levelSeed,
    rendered,         \* the state the handlers of the last render closed over
    events,           \* the number of events handled
    lastEvent         \* history: the last event and the state it met

scene == <<sources, detectors, placedMirrors, obstacles>>
app == <<laserPaths, overallSuccess, masterCorrectlyHitDetectorIds>>
effect == <<srcIdx, newMaster, newPaths, returnedHits>>
run == <<activeRays, allSegmentsForThisSource,
         correctlyHitDetectorIdsThisSource, processedRayStarts, last>>
ui == <<draggingMirrorInfo, isPointerOverTrash, levelSeed, rendered, events,
        lastEvent>>
vars == <<scene, app, pc, effect, run, tick, ui>>

\* what a render hands to the handlers and to the dependency lists
Closure(mirrors, dragging, overTrash, seed) ==
    [placedMirrors |-> mirrors, draggingMirrorInfo |-> dragging,
     isPointerOverTrash |-> overTrash, levelSeed |-> seed]

NoEvent ==
    [kind |-> "none", id |-> "", mirrors |-> <<>>, success |-> FALSE,
     settled |-> FALSE]

NoRay == Ray(P(0, 0), P(0, 0), 0, NoParent)

NoStep ==
    [kind |-> "none", ray |-> NoRay, type |-> "", object |-> "",
     mirrorType |-> "", point |-> P(0, 0), emitted |-> <<>>,
     children |-> <<>>, accepted |-> FALSE]

\* the scene is set and rendered, and the recompute effect is due
Mounted(srcs, dets, obs, mirrors) ==
    /\ sources = srcs
    /\ detectors = dets
    /\ obstacles = obs
    /\ placedMirrors = mirrors
    /\ laserPaths = [i \in 1..Len(sources) |-> <<>>]
    /\ overallSuccess = FALSE
    /\ masterCorrectlyHitDetectorIds = {}
    /\ pc = "effect"
    /\ srcIdx = 0
    /\ newMaster = {}
    /\ newPaths = <<>>
    /\ returnedHits = <<>>
    /\ activeRays = <<>>
    /\ allSegmentsForThisSource = <<>>
    /\ correctlyHitDetectorIdsThisSource = {}
    /\ processedRayStarts = {}
    /\ last = NoStep
    /\ tick = 0
    /\ draggingMirrorInfo = <<>>
    /\ isPointerOverTrash = FALSE
    /\ levelSeed = 0
    /\ rendered = Closure(placedMirrors, <<>>, FALSE, 0)
    /\ events = 0
    /\ lastEvent = NoEvent

Init ==
    \E lvl \in 1..Len(Levels) :
       \E mirrors \in MirrorChoices(Levels[lvl].pool) :
          Mounted(Levels[lvl].sources, Levels[lvl].detectors,
                  Levels[lvl].obstacles, mirrors)

\* control moves on by one statement
Advance == pc # "idle" /\ tick' = 1 - tick

(***************************************************************************)
(* calculateLaserPathsForSource: entry, one loop iteration, return.        *)
(***************************************************************************)
\* the run starts from the middle of the arena
SeedRayAtCentre(source) ==
    Ray(Pt(Q(GAME_WIDTH, 2), Q(GAME_HEIGHT, 2)), source.initialDirection,
        MAX_REFLECTIONS, NoParent)

SeedRay(source) ==
    Ray(source.position, source.initialDirection, MAX_REFLECTIONS, NoParent)

\* the hit-set of the previous run is kept
StartRunKeepingHits(i) ==
    /\ srcIdx' = i
    /\ activeRays' = <<SeedRay(sources[i])>>
    /\ allSegmentsForThisSource' = <<>>
    /\ UNCHANGED correctlyHitDetectorIdsThisSource
    /\ processedRayStarts' = {}
    /\ last' = NoStep

\* the locals at entry of calculateLaserPathsForSource(sources[i], ...)
StartRun(i) ==
    /\ srcIdx' = i
    /\ activeRays' = <<SeedRay(sources[i])>>
    /\ allSegmentsForThisSource' = <<>>
    /\ correctlyHitDetectorIdsThisSource' = {}
    /\ processedRayStarts' = {}
    /\ last' = NoStep

\* the head is read but left in the queue
DequeuePeek(q) == q

\* activeRays.shift()
Dequeue(q) == Tail(q)

\* the pushed states go to the front of the queue
pushFront(q, children) == children \o q

\* activeRays.push(...), for each state the iteration pushes
pushAll(q, children) == q \o children

\* the escape of a ray is not drawn
PropagateUndrawnEscape(currentRayState, found) ==
    IF found = <<>>
    THEN [NoStep EXCEPT !.kind = "escape", !.ray = currentRayState]
    ELSE [kind |-> "hit", ray |-> currentRayState,
          type |-> found[1].type,
          object |-> IF found[1].type = "boundary"
                     THEN found[1].object.name
                     ELSE found[1].object.id,
          mirrorType |-> IF found[1].type = "mirror"
                         THEN found[1].object.type ELSE "",
          point |-> found[1].point,
          emitted |-> <<Segment(currentRayState.origin, found[1].point)>>,
          children |-> Children(currentRayState, found[1]),
          accepted |->
              /\ found[1].type = "detector"
              /\ detectorAccepts(currentRayState.origin, found[1].point,
                                 found[1].object)]

\* the rest of the iteration once the query has answered: found is <<>>
\* (null) or <<intersection>>
Propagate(currentRayState, found) ==
    IF found = <<>>
    THEN [NoStep EXCEPT
            !.kind = "escape", !.ray = currentRayState,
            !.emitted = <<Segment(currentRayState.origin,
                                  farPoint(currentRayState))>>]
    ELSE [kind |-> "hit", ray |-> currentRayState,
          type |-> found[1].type,
          object |-> IF found[1].type = "boundary"
                     THEN found[1].object.name
                     ELSE found[1].object.id,
          mirrorType |-> IF found[1].type = "mirror"
                         THEN found[1].object.type ELSE "",
          point |-> found[1].point,
          emitted |-> <<Segment(currentRayState.origin, found[1].point)>>,
          children |-> Children(currentRayState, found[1]),
          accepted |->
              /\ found[1].type = "detector"
              /\ detectorAccepts(currentRayState.origin, found[1].point,
                                 found[1].object)]

\* what the iteration on currentRayState does: its kind, the segment it
\* emits, the states it pushes and whether it records a detector
Iteration(currentRayState) ==
    IF currentRayState.remainingInteractions <= 0
    THEN [NoStep EXCEPT !.kind = "exhausted", !.ray = currentRayState]
    ELSE IF rayKey(currentRayState) \in processedRayStarts
    THEN [NoStep EXCEPT !.kind = "visited", !.ray = currentRayState]
    ELSE Propagate(currentRayState,
                   findClosestIntersection(currentRayState.origin,
                       currentRayState.direction, placedMirrors,
                       obstacles, detectors))

Step ==
    /\ pc = "run"
    /\ activeRays # <<>>
    /\ \E it \in {Iteration(Head(activeRays))} :
           /\ last' = it
           /\ activeRays' = pushAll(Dequeue(activeRays), it.children)
           /\ allSegmentsForThisSource' = allSegmentsForThisSource \o it.emitted
           /\ correctlyHitDetectorIdsThisSource' =
                  IF it.accepted
                  THEN correctlyHitDetectorIdsThisSource \cup {it.object}
                  ELSE correctlyHitDetectorIdsThisSource
           /\ processedRayStarts' =
                  IF it.kind \in {"escape", "hit"}
                  THEN processedRayStarts \cup {rayKey(it.ray)}
                  ELSE processedRayStarts
    /\ UNCHANGED <<scene, app, pc, effect, ui>>
    /\ Advance

(***************************************************************************)
(* The recompute effect of App.                                            *)
(***************************************************************************)
EffectStart ==
    /\ pc = "effect"
    /\ IF Len(sources) = 0 \/ Len(detectors) = 0
       THEN /\ overallSuccess' = FALSE
            /\ pc' = IF overallSuccess THEN "effect" ELSE "idle"
            /\ UNCHANGED <<effect, run>>
       ELSE /\ newMaster' = {}
            /\ newPaths' = <<>>
            /\ returnedHits' = <<>>
            /\ StartRun(1)
            /\ pc' = "run"
            /\ UNCHANGED overallSuccess
    /\ UNCHANGED <<scene, laserPaths, masterCorrectlyHitDetectorIds, ui>>
    /\ Advance

\* the set of the last source replaces the master set
AddAllReplacing(master, ids) == ids

\* allCorrectlyHitDetectorIdsFromThisSource.forEach(id => newMaster.add(id))
AddAll(master, ids) == master \cup ids

SourceReturn ==
    /\ pc = "run"
    /\ activeRays = <<>>
    /\ newMaster' = AddAll(newMaster, correctlyHitDetectorIdsThisSource)
    /\ newPaths' = Append(newPaths, allSegmentsForThisSource)
    /\ returnedHits' = Append(returnedHits, correctlyHitDetectorIdsThisSource)
    /\ IF srcIdx < Len(sources)
       THEN /\ StartRun(srcIdx + 1)
            /\ pc' = "run"
       ELSE /\ pc' = "commit"
            /\ UNCHANGED <<srcIdx, run>>
    /\ UNCHANGED <<scene, app, ui>>
    /\ Advance

\* some instead of every
someDetectorHit(dets, master) ==
    /\ Len(dets) > 0
    /\ \E i \in 1..Len(dets) : dets[i].id \in master

\* detectors.length > 0 && detectors.every(d => newMaster.has(d.id))
currentOverallSuccess(dets, master) ==
    /\ Len(dets) > 0
    /\ \A i \in 1..Len(dets) : dets[i].id \in master

\* the paths of the scene before are kept
CommitKeepingPaths ==
    /\ pc = "commit"
    /\ UNCHANGED laserPaths
    /\ masterCorrectlyHitDetectorIds' = newMaster
    /\ overallSuccess' = currentOverallSuccess(detectors, newMaster)
    /\ pc' = IF app' # app THEN "effect" ELSE "idle"
    /\ UNCHANGED <<scene, effect, run, ui>>
    /\ Advance

Commit ==
    /\ pc = "commit"
    /\ laserPaths' = newPaths
    /\ masterCorrectlyHitDetectorIds' = newMaster
    /\ overallSuccess' = currentOverallSuccess(detectors, newMaster)
    /\ pc' = IF app' # app THEN "effect" ELSE "idle"
    /\ UNCHANGED <<scene, effect, run, ui>>
    /\ Advance

Next == EffectStart \/ Step \/ SourceReturn \/ Commit

Spec == Init /\ [][Next]_vars

\* The effect and the loop it calls are synchronous code: while the effect is
\* pending or running, its next statement is executed.
FairSpec == Spec /\ WF_tick(Advance)

(***************************************************************************)
(* The handlers of App.  A handler runs to completion between two steps of *)
(* the effect, so it is taken only when no effect is pending or running.   *)
(* It reads the state of the last render (rendered) wherever the code      *)
(* reads a variable of the component, and the current state wherever the   *)
(* code passes an updater to a setter.  One pointer is pressed on a mirror *)
(* from the mouse-down to the mouse-up, and nothing is dropped meanwhile.  *)
(***************************************************************************)
MaxEvents == 3

INITIAL_PALETTE_MIRRORS ==
    << [id |-> "pm1", type |-> "default",
        defaultLength |-> 80, defaultAngle |-> 0],
       [id |-> "pm-bs", type |-> "beam-splitter",
        defaultLength |-> 80, defaultAngle |-> 45],
       [id |-> "pm-dg", type |-> "diffraction-grating",
        defaultLength |-> 80, defaultAngle |-> 0] >>

\* the template ids dropped: the two templates whose end points are
\* rational (pm-bs lies at 45 degrees), and an id that is no template
TemplateIds == {"pm1", "pm-dg", "pm-x"}

\* where a template is dropped
DropSpots == {P(400, 100)}

\* generateId(): the n-th id made is unlike the ids made before
generateId(n) ==
    <<"n1", "n2", "n3", "n4", "n5", "n6", "n7", "n8">>[n]

\* INITIAL_PALETTE_MIRRORS.find(t => t.id === templateId)
findTemplate(templateId) ==
    SelectSeq(INITIAL_PALETTE_MIRRORS, LAMBDA t : t.id = templateId)

\* (Math.cos(angleRad), Math.sin(angleRad)) for the quarter turns
angleDirection(defaultAngle) ==
    [a \in {0, 90, 180, 270} |->
        IF a = 0 THEN P(1, 0) ELSE IF a = 90 THEN P(0, 1)
        ELSE IF a = 180 THEN P(-1, 0) ELSE P(0, -1)][defaultAngle]

newMirror(template, drop, newMirrorId) ==
    Mirror(newMirrorId,
           subtractPoints(drop, scaleVector(angleDirection(template.defaultAngle),
                                            Q(template.defaultLength, 2))),
           addPoints(drop, scaleVector(angleDirection(template.defaultAngle),
                                       Q(template.defaultLength, 2))),
           template.type)

\* the list after handleDropMirror: count is placedMirrors.length as
\* rendered, prev is the list the updater is given
placedAfterDrop(count, prev, template, drop, newMirrorId) ==
    IF count >= MAX_PLACED_MIRRORS THEN prev
    ELSE IF template = <<>> THEN prev
    ELSE Append(prev, newMirror(template[1], drop, newMirrorId))

\* an event is handled
Handled(kind, id) ==
    /\ pc = "idle"
    /\ events < MaxEvents
    /\ events' = events + 1
    /\ lastEvent' = [kind |-> kind, id |-> id, mirrors |-> placedMirrors,
                     success |-> overallSuccess,
                     settled |-> rendered.placedMirrors = placedMirrors]
    /\ UNCHANGED <<sources, detectors, obstacles, app, pc, effect, run, tick,
                   rendered>>

handleDropMirror(templateId, drop) ==
    /\ draggingMirrorInfo = <<>>
    /\ Handled("drop", templateId)
    /\ placedMirrors' =
          placedAfterDrop(Len(rendered.placedMirrors), placedMirrors,
                          findTemplate(templateId), drop,
                          generateId(events + 1))
    /\ UNCHANGED <<draggingMirrorInfo, isPointerOverTrash, levelSeed>>

DropMirror ==
    \E templateId \in TemplateIds : \E drop \in DropSpots :
       handleDropMirror(templateId, drop)

\* placedMirrors.find(m => m.id === mirrorId), in the list as rendered
findMirror(mirrorId) ==
    SelectSeq(rendered.placedMirrors, LAMBDA m : m.id = mirrorId)

DraggingInfo(mirror, type, pointType, coords) ==
    [mirror |-> mirror, type |-> type, pointType |-> pointType,
     dragStartMousePosition |-> coords,
     originalP1 |-> mirror.p1, originalP2 |-> mirror.p2]

\* the mirrors drawn, which the pointer can be pressed on
RenderedIds ==
    {rendered.placedMirrors[i].id : i \in 1..Len(rendered.placedMirrors)}

handleMouseDownOnMirrorPoint(mirrorId, pointType) ==
    /\ draggingMirrorInfo = <<>>
    /\ Handled("down", mirrorId)
    /\ draggingMirrorInfo' =
          IF findMirror(mirrorId) # <<>>
          THEN <<DraggingInfo(findMirror(mirrorId)[1], "endpoint", pointType,
                              P(0, 0))>>
          ELSE draggingMirrorInfo
    /\ UNCHANGED <<placedMirrors, isPointerOverTrash, levelSeed>>

MouseDownOnMirrorPoint ==
    \E mirrorId \in RenderedIds : \E pointType \in {"p1", "p2"} :
       handleMouseDownOnMirrorPoint(mirrorId, pointType)

midpoint(mirror) ==
    scaleVector(addPoints(mirror.p1, mirror.p2), Q(1, 2))

handleMouseDownOnMirrorBody(mirrorId, coords) ==
    /\ draggingMirrorInfo = <<>>
    /\ Handled("down", mirrorId)
    /\ draggingMirrorInfo' =
          IF findMirror(mirrorId) # <<>>
          THEN <<DraggingInfo(findMirror(mirrorId)[1], "body", "", coords)>>
          ELSE draggingMirrorInfo
    /\ UNCHANGED <<placedMirrors, isPointerOverTrash, levelSeed>>

\* the body of a mirror is pressed at its middle
MouseDownOnMirrorBody ==
    \E mirrorId \in RenderedIds :
       handleMouseDownOnMirrorBody(mirrorId,
                                   midpoint(findMirror(mirrorId)[1]))

\* the end point of the mirror that is not dragged
fixedPoint(info) ==
    IF info.pointType = "p1" THEN info.mirror.p2 ELSE info.mirror.p1

\* the end points of the dragged mirror with the pointer at coords
draggedTo(info, coords) ==
    IF info.type = "body"
    THEN [p1 |-> addPoints(info.originalP1,
                           subtractPoints(coords, info.dragStartMousePosition)),
          p2 |-> addPoints(info.originalP2,
                           subtractPoints(coords, info.dragStartMousePosition))]
    ELSE IF RLt(distance(info.mirror.p1, info.mirror.p2), Q(1, 1000))
    THEN [p1 |-> fixedPoint(info), p2 |-> fixedPoint(info)]
    ELSE IF info.pointType = "p1"
    THEN [p1 |-> addPoints(fixedPoint(info),
                    scaleVector(normalizeVector(
                                    subtractPoints(coords, fixedPoint(info))),
                                distance(info.mirror.p1, info.mirror.p2))),
          p2 |-> info.mirror.p2]
    ELSE [p1 |-> info.mirror.p1,
          p2 |-> addPoints(fixedPoint(info),
                    scaleVector(normalizeVector(
                                    subtractPoints(coords, fixedPoint(info))),
                                distance(info.mirror.p1, info.mirror.p2)))]

updatedMirror(info, ends) ==
    [info.mirror EXCEPT !.p1 = ends.p1, !.p2 = ends.p2]

\* prevMirrors.map(m => (m.id === mirror.id ? updatedMirror : m))
replaceMirror(prevMirrors, updated) ==
    [i \in 1..Len(prevMirrors) |->
        IF prevMirrors[i].id = updated.id THEN updated ELSE prevMirrors[i]]

\* the pointer: its place in the coordinates of the canvas, and whether it
\* is within the rectangle of the trash can
Pointer(at, over) == [at |-> at, over |-> over]

\* where the pointer moves to.  A pressed body is carried freely; a pressed
\* end point is pulled along a direction whose length is rational: towards
\* the trash can, or straight away from the mirror.
Pointers ==
    IF rendered.draggingMirrorInfo = <<>>
    THEN {Pointer(P(400, 300), FALSE)}
    ELSE IF rendered.draggingMirrorInfo[1].type = "body"
    THEN {Pointer(addPoints(rendered.draggingMirrorInfo[1]
                               .dragStartMousePosition, P(300, 400)), TRUE),
          Pointer(addPoints(rendered.draggingMirrorInfo[1]
                               .dragStartMousePosition, P(0, -50)), FALSE)}
    ELSE {Pointer(addPoints(fixedPoint(rendered.draggingMirrorInfo[1]),
                            P(400, 420)), TRUE),
          Pointer(addPoints(fixedPoint(rendered.draggingMirrorInfo[1]),
                            IF rendered.draggingMirrorInfo[1].pointType = "p2"
                            THEN P(0, -100) ELSE P(0, 100)), FALSE)}

handleMouseMove(pointer) ==
    /\ Handled("move", "")
    /\ isPointerOverTrash' =
          IF /\ rendered.draggingMirrorInfo # <<>>
             /\ Len(rendered.placedMirrors) > 0
          THEN pointer.over ELSE FALSE
    /\ IF rendered.draggingMirrorInfo = <<>>
       THEN UNCHANGED <<placedMirrors, draggingMirrorInfo>>
       ELSE \E updated \in
                {updatedMirror(rendered.draggingMirrorInfo[1],
                               draggedTo(rendered.draggingMirrorInfo[1],
                                         pointer.at))} :
               /\ placedMirrors' = replaceMirror(placedMirrors, updated)
               /\ draggingMirrorInfo' =
                     IF draggingMirrorInfo = <<>> THEN <<>>
                     ELSE <<[draggingMirrorInfo[1] EXCEPT !.mirror = updated]>>
    /\ UNCHANGED levelSeed

MouseMove == \E pointer \in Pointers : handleMouseMove(pointer)

\* every mirror is kept
deleteNothing(prev, mirrorId) == prev

\* prev.filter(m => m.id !== mirrorId)
deletePlacedMirror(prev, mirrorId) ==
    SelectSeq(prev, LAMBDA m : m.id # mirrorId)

handleMouseUpOrTouchEnd ==
    /\ IF rendered.draggingMirrorInfo # <<>> /\ rendered.isPointerOverTrash
       THEN /\ Handled("delete", rendered.draggingMirrorInfo[1].mirror.id)
            /\ placedMirrors' =
                  deletePlacedMirror(placedMirrors,
                      rendered.draggingMirrorInfo[1].mirror.id)
       ELSE /\ Handled("up", "")
            /\ UNCHANGED placedMirrors
    /\ draggingMirrorInfo' = <<>>
    /\ isPointerOverTrash' = FALSE
    /\ UNCHANGED levelSeed

\* RefreshButton: setLevelSeed(s => s + 1)
onRefresh ==
    /\ draggingMirrorInfo = <<>>
    /\ Handled("refresh", "")
    /\ levelSeed' = levelSeed + 1
    /\ UNCHANGED <<placedMirrors, draggingMirrorInfo, isPointerOverTrash>>

\* The component renders again after updates: the handlers close over the
\* new state, and the effects whose dependencies changed are due.  (With
\* both due, resetLevel is taken first and the recompute runs on the new
\* level.)
Render ==
    /\ pc = "idle"
    /\ rendered # Closure(placedMirrors, draggingMirrorInfo,
                          isPointerOverTrash, levelSeed)
    /\ rendered' = Closure(placedMirrors, draggingMirrorInfo,
                           isPointerOverTrash, levelSeed)
    /\ pc' = IF levelSeed # rendered.levelSeed THEN "reset"
             ELSE IF placedMirrors # rendered.placedMirrors THEN "effect"
             ELSE "idle"
    /\ UNCHANGED <<scene, app, effect, run, tick, draggingMirrorInfo,
                   isPointerOverTrash, levelSeed, events, lastEvent>>

\* the levels resetLevel generates
GeneratedLevels == {4}

\* useEffect(() => resetLevel(), [levelSeed, resetLevel]), and the render
\* that follows it
resetLevel ==
    /\ pc = "reset"
    /\ \E lvl \in GeneratedLevels :
          /\ sources' = Levels[lvl].sources
          /\ detectors' = Levels[lvl].detectors
          /\ obstacles' = Levels[lvl].obstacles
          /\ laserPaths' = [i \in 1..Len(Levels[lvl].sources) |-> <<>>]
    /\ placedMirrors' = <<>>
    /\ draggingMirrorInfo' = <<>>
    /\ masterCorrectlyHitDetectorIds' = {}
    /\ isPointerOverTrash' = FALSE
    /\ overallSuccess' = FALSE
    /\ rendered' = Closure(<<>>, <<>>, FALSE, levelSeed)
    /\ pc' = "effect"
    /\ UNCHANGED <<effect, run, levelSeed, events, lastEvent>>
    /\ Advance

\* four mirrors as dropped from pm1, clear of the ray of s1
H1 == Mirror("h1", P(60, 500), P(140, 500), "default")
H2 == Mirror("h2", P(160, 500), P(240, 500), "default")
H3 == Mirror("h3", P(260, 500), P(340, 500), "default")
H4 == Mirror("h4", P(460, 500), P(540, 500), "default")

\* the scenes the events start from: a level with mirrors placed on it
\* a beam splitter along (20, 21)/29 further down the ray of s1, which
\* lets the ray on to d1
Bt == Mirror("bt", P(500, 260), Pt(Q(16100, 29), Q(9220, 29)),
             "beam-splitter")

\* a wall under the ray of s1, which stops what bt sends down
O4 == [id |-> "o4", shape |-> "line", p1 |-> P(460, 520), p2 |-> P(600, 520)]

UIScenes ==
    << Level(<<S1>>, <<D1, D2>>, <<O4>>, <<Be, Bt>>),
       Level(<<S1>>, <<D1>>, <<>>, <<H1, H2, H3, H4>>) >>

UIInit ==
    \E i \in 1..Len(UIScenes) :
       Mounted(UIScenes[i].sources, UIScenes[i].detectors,
               UIScenes[i].obstacles, UIScenes[i].pool)

UINext ==
    \/ EffectStart \/ Step \/ SourceReturn \/ Commit
    \/ Render \/ resetLevel
    \/ DropMirror \/ MouseDownOnMirrorPoint \/ MouseDownOnMirrorBody
    \/ MouseMove \/ handleMouseUpOrTouchEnd \/ onRefresh

UISpec == UIInit /\ [][UINext]_vars

\* An effect that is due or running is synchronous code and runs on; and
\* React renders the component again after a state update.
FairUISpec == UISpec /\ WF_tick(Advance) /\ WF_rendered(Render)


(***************************************************************************)
(* Vocabulary of the properties.                                           *)
(***************************************************************************)
\* a step of Next that is one iteration of the propagation loop
IsIteration == pc = "run" /\ activeRays # <<>>

\* the state the iteration dequeues
Dequeued == Head(activeRays)

\* a queue entry without its history field
Bare(r) ==
    [origin |-> r.origin, direction |-> r.direction,
     remainingInteractions |-> r.remainingInteractions]

BareQueue(q) == [i \in 1..Len(q) |-> Bare(q[i])]

Child(origin, direction, budget) ==
    [origin |-> origin, direction |-> direction,
     remainingInteractions |-> budget]

DetectorIds == {detectors[i].id : i \in 1..Len(detectors)}

DetectorOf(id) ==
    detectors[CHOOSE i \in 1..Len(detectors) : detectors[i].id = id]

MirrorOf(id) ==
    placedMirrors[CHOOSE i \in 1..Len(placedMirrors) : placedMirrors[i].id = id]

UnionOf(sets) == UNION {sets[i] : i \in 1..Len(sets)}

InArena(p) ==
    /\ RLe(I(0), p.x) /\ RLe(p.x, I(GAME_WIDTH))
    /\ RLe(I(0), p.y) /\ RLe(p.y, I(GAME_HEIGHT))

\* the mirror image of direction d in the line through p1 and p2
Mirrored(d, p1, p2) ==
    LET t == normalizeVector(subtractPoints(p2, p1))
    IN  subtractPoints(scaleVector(t, RMul(I(2), dotProduct(d, t))), d)

(***************************************************************************)
(* C1.  Every run of calculateLaserPathsForSource terminates: once a run   *)
(* has started, its work queue eventually becomes empty, also with beam    *)
(* splitters and gratings facing each other or the boundary.               *)
(***************************************************************************)
C1_Terminates == (pc = "run") ~> (pc = "run" /\ activeRays = <<>>)

C1_Witness ==
    /\ pc = "run"
    /\ activeRays = <<>>
    /\ Len(placedMirrors) = 2
    /\ \A i \in 1..2 : placedMirrors[i].type # "default"
    /\ Len(allSegmentsForThisSource) > MAX_REFLECTIONS

(***************************************************************************)
(* C2.  In a run, every queued state other than the seed has a budget one  *)
(* less than the state that enqueued it, and every state that emits a      *)
(* segment has a budget between 1 and MAX_REFLECTIONS.                     *)
(***************************************************************************)
C2_Budgets ==
    pc = "run" =>
        /\ \A i \in 1..Len(activeRays) :
              activeRays[i].parent # NoParent =>
                  activeRays[i].remainingInteractions = activeRays[i].parent - 1
        /\ \A i \in 1..Len(last.children) :
              /\ last.children[i].parent = last.ray.remainingInteractions
              /\ last.children[i].remainingInteractions
                     = last.ray.remainingInteractions - 1
        /\ last.emitted # <<>> =>
              last.ray.remainingInteractions \in 1..MAX_REFLECTIONS

C2_Witness ==
    /\ pc = "run"
    /\ Len(activeRays) >= 2
    /\ activeRays[1].parent # NoParent
    /\ activeRays[1].remainingInteractions # activeRays[Len(activeRays)].remainingInteractions
    /\ last.emitted # <<>>
    /\ last.children # <<>>
    /\ last.ray.remainingInteractions < MAX_REFLECTIONS

(***************************************************************************)
(* C3.  As claimed: once the recompute has settled, the overall-success    *)
(* flag is true exactly when every detector id of the scene is in the      *)
(* global hit-set, whatever the number of sources and detectors.           *)
(***************************************************************************)
C3_AsClaimed ==
    pc = "idle" =>
        (overallSuccess <=> DetectorIds \subseteq masterCorrectlyHitDetectorIds)

(***************************************************************************)
(* C3, amended.  Once the recompute has settled, the flag is true exactly  *)
(* when the scene has at least one source and at least one detector and    *)
(* every detector id of the scene is in the global hit-set; in a scene     *)
(* without sources or without detectors the flag is false.                 *)
(***************************************************************************)
C3_Success ==
    pc = "idle" =>
        (overallSuccess <=>
            /\ Len(sources) > 0
            /\ DetectorIds # {}
            /\ DetectorIds \subseteq masterCorrectlyHitDetectorIds)

C3_Witness ==
    /\ pc = "idle"
    /\ overallSuccess
    /\ Cardinality(DetectorIds) >= 2
    /\ placedMirrors # <<>>

(***************************************************************************)
(* C4.  The global hit-set is the union of the hit-sets the runs of the    *)
(* sources returned: while the sources are being mapped it is the union    *)
(* of the sets returned so far, and what the recompute commits is the      *)
(* union over all sources.                                                 *)
(***************************************************************************)
C4_Union ==
    /\ pc \in {"run", "commit"} => newMaster = UnionOf(returnedHits)
    /\ (pc = "idle" /\ Len(sources) > 0 /\ Len(detectors) > 0) =>
           /\ Len(returnedHits) = Len(sources)
           /\ masterCorrectlyHitDetectorIds = UnionOf(returnedHits)

C4_Witness ==
    /\ pc = "idle"
    /\ \E i, j \in 1..Len(returnedHits) :
          /\ returnedHits[i] # {}
          /\ returnedHits[j] # {}
          /\ returnedHits[i] \cap returnedHits[j] = {}
    /\ DetectorIds \ masterCorrectlyHitDetectorIds # {}

(***************************************************************************)
(* C5.  As claimed: every emitted segment has both end points inside the   *)
(* closed arena rectangle, and the escape segment is never emitted.        *)
(***************************************************************************)
C5_AsClaimed ==
    /\ \A i \in 1..Len(allSegmentsForThisSource) :
          /\ InArena(allSegmentsForThisSource[i].start)
          /\ InArena(allSegmentsForThisSource[i].end)
    /\ last.kind # "escape"

(***************************************************************************)
(* C6.  An iteration whose closest intersection is an obstacle appends the *)
(* segment from the origin of the state to the hit point and enqueues      *)
(* nothing, whatever the budget and the shape of the obstacle.             *)
(***************************************************************************)
C6_ObstacleTerminal ==
    [][(IsIteration /\ last'.type = "obstacle") =>
          /\ activeRays' = Tail(activeRays)
          /\ allSegmentsForThisSource' =
                 Append(allSegmentsForThisSource,
                        Segment(Dequeued.origin, last'.point))]_vars

C6_Witness ==
    /\ last.type = "obstacle"
    /\ last.ray.remainingInteractions \in 2..(MAX_REFLECTIONS - 1)
    /\ activeRays # <<>>

(***************************************************************************)
(* C7.  An iteration whose closest intersection is a detector enqueues     *)
(* nothing, accepted or not, and adds the id of the detector to the        *)
(* hit-set of the source exactly when the acceptance test passes.          *)
(***************************************************************************)
C7_DetectorTerminal ==
    [][(IsIteration /\ last'.type = "detector") =>
          /\ activeRays' = Tail(activeRays)
          /\ correctlyHitDetectorIdsThisSource' =
                 IF detectorAccepts(Dequeued.origin, last'.point,
                                    DetectorOf(last'.object))
                 THEN correctlyHitDetectorIdsThisSource \cup {last'.object}
                 ELSE correctlyHitDetectorIdsThisSource]_vars

C7_Witness ==
    /\ last.type = "detector"
    /\ ~last.accepted
    /\ last.object \notin correctlyHitDetectorIdsThisSource
    /\ last.ray.remainingInteractions > 1
    /\ activeRays # <<>>

(***************************************************************************)
(* C8.  A detector hit is accepted exactly when the dot product of the     *)
(* direction of the incoming ray with the required direction, (1,0),       *)
(* (0,1), (-1,0), (0,-1) for entry angle 0, 90, 180, 270, is strictly      *)
(* greater than the cosine of the acceptance half-angle; a ray exactly on  *)
(* the edge of the cone is rejected.                                       *)
(***************************************************************************)
RequiredDirection(angle) ==
    CASE angle = 0 -> P(1, 0)
      [] angle = 90 -> P(0, 1)
      [] angle = 180 -> P(-1, 0)
      [] angle = 270 -> P(0, -1)

IncidenceCosine ==
    dotProduct(last.ray.direction,
               RequiredDirection(DetectorOf(last.object).angle))

C8_Acceptance ==
    last.type = "detector" =>
        /\ last.accepted <=> RLt(acceptanceThresholdCosine, IncidenceCosine)
        /\ IncidenceCosine = acceptanceThresholdCosine => ~last.accepted

C8_Witness ==
    /\ last.type = "detector"
    /\ IncidenceCosine = acceptanceThresholdCosine
    /\ ~last.accepted
    /\ last.object \notin correctlyHitDetectorIdsThisSource

(***************************************************************************)
(* C9.  A state dequeued with budget 0 emits no segment and no child (the  *)
(* loop body applied to any queued state with its budget set to 0 yields   *)
(* neither); a state with budget 1 that hits a mirror of any kind or a     *)
(* boundary appends the segment from its origin to the hit point and       *)
(* enqueues nothing.                                                       *)
(***************************************************************************)
C9_Exhaustion ==
    /\ [](pc = "run" =>
            \A i \in 1..Len(activeRays) :
               LET spent == Iteration([activeRays[i] EXCEPT
                                          !.remainingInteractions = 0])
               IN  spent.emitted = <<>> /\ spent.children = <<>>)
    /\ [][IsIteration =>
            /\ Dequeued.remainingInteractions <= 0 =>
                  /\ activeRays' = Tail(activeRays)
                  /\ UNCHANGED allSegmentsForThisSource
            /\ (/\ Dequeued.remainingInteractions = 1
                /\ last'.type \in {"mirror", "boundary"}) =>
                  /\ activeRays' = Tail(activeRays)
                  /\ allSegmentsForThisSource' =
                         Append(allSegmentsForThisSource,
                                Segment(Dequeued.origin, last'.point))]_vars

C9_Witness ==
    /\ last.type = "mirror"
    /\ last.ray.remainingInteractions = 1
    /\ last.emitted = <<Segment(last.ray.origin, last.point)>>
    /\ last.children = <<>>
    /\ activeRays # <<>>

(***************************************************************************)
(* C10.  As claimed: a hit on a beam splitter enqueues exactly two         *)
(* children at the hit point, the reflected and the transmitted one, each  *)
(* with the budget of the parent minus 1.                                  *)
(***************************************************************************)
SplitChildren(r, mirror, point) ==
    << Child(point, Mirrored(r.direction, mirror.p1, mirror.p2),
             r.remainingInteractions - 1),
       Child(point, r.direction, r.remainingInteractions - 1) >>

C10_AsClaimed ==
    [][(IsIteration /\ last'.mirrorType = "beam-splitter") =>
          BareQueue(activeRays') =
              BareQueue(Tail(activeRays))
              \o SplitChildren(Dequeued, MirrorOf(last'.object),
                               last'.point)]_vars

(***************************************************************************)
(* C10, amended.  A hit on a beam splitter by a state whose budget is at   *)
(* least 2 enqueues exactly two children at the hit point, the reflected   *)
(* and the transmitted one, each with the budget of the parent minus 1; a  *)
(* hit by a state whose budget is 1 enqueues nothing.                      *)
(***************************************************************************)
C10_BeamSplitter ==
    [][(IsIteration /\ last'.mirrorType = "beam-splitter") =>
          BareQueue(activeRays') =
              BareQueue(Tail(activeRays))
              \o (IF Dequeued.remainingInteractions >= 2
                  THEN SplitChildren(Dequeued, MirrorOf(last'.object),
                                     last'.point)
                  ELSE <<>>)]_vars

C10_Witness ==
    /\ last.mirrorType = "beam-splitter"
    /\ last.object = "bc"
    /\ last.ray.remainingInteractions < MAX_REFLECTIONS
    /\ Len(last.children) = 2
    /\ last.children[1].direction # scaleVector(last.ray.direction, I(-1))
    /\ last.children[1].direction # last.children[2].direction

(***************************************************************************)
(* C11.  A hit on a diffraction grating by a state whose budget is at      *)
(* least 2 enqueues the zero-order child with the unchanged direction      *)
(* and, for each order m of +1, -1, one further child exactly when         *)
(* |sin(theta_i) - m*K| <= 1 (no child for an evanescent order); all       *)
(* children start at the hit point with the budget of the parent minus 1.  *)
(***************************************************************************)
\* sin of the angle of d minus the angle of the unit normal of the segment
\* p1-p2 that opposes d: the normal is -+(-t.y, t.x) for the unit tangent t
IncidenceSine(d, p1, p2) ==
    LET t == normalizeVector(subtractPoints(p2, p1))
        along == dotProduct(d, t)
        across == RSub(RMul(d.y, t.x), RMul(d.x, t.y))
    IN  IF RSign(across) > 0 THEN along ELSE RNeg(along)

\* the orders that are not evanescent at incidence sine s
PropagatingOrders(s) ==
    {m \in {1, -1} :
        RLe(RAbs(RSub(s, RMul(I(m), GRATING_K_CONSTANT))), I(1))}

C11_Grating ==
    [][(/\ IsIteration
        /\ last'.mirrorType = "diffraction-grating"
        /\ Dequeued.remainingInteractions >= 2) =>
          /\ BareQueue(activeRays') =
                 BareQueue(Tail(activeRays)) \o BareQueue(last'.children)
          /\ Len(last'.children) =
                 1 + Cardinality(PropagatingOrders(
                         IncidenceSine(Dequeued.direction,
                                       MirrorOf(last'.object).p1,
                                       MirrorOf(last'.object).p2)))
          /\ last'.children[1].direction = Dequeued.direction
          /\ \A i \in 1..Len(last'.children) :
                 /\ last'.children[i].origin = last'.point
                 /\ last'.children[i].remainingInteractions =
                        Dequeued.remainingInteractions - 1
                 /\ i > 1 => last'.children[i].direction # Dequeued.direction]_vars

\* a grating met at an incidence where one of the two orders is evanescent
C11_Witness ==
    /\ last.mirrorType = "diffraction-grating"
    /\ last.ray.remainingInteractions >= 2
    /\ Len(last.children) = 2
    /\ Cardinality(PropagatingOrders(
            IncidenceSine(last.ray.direction, MirrorOf(last.object).p1,
                          MirrorOf(last.object).p2))) = 1

(***************************************************************************)
(* C13.  For the state about to be dequeued, findClosestIntersection       *)
(* returns, among                                                          *)
(* the candidate intersections (on the 4 boundary segments, the mirror     *)
(* segments, the obstacles and the 4 edges of the detectors) whose         *)
(* distance from the origin exceeds EPSILON, one of minimum distance, with *)
(* the object and type that produced it; it returns none exactly when no   *)
(* candidate is farther than EPSILON.                                      *)
(***************************************************************************)
\* the candidate intersections of the ray of r, in the order they are found
Candidates(r) ==
    BoundaryHits(r.origin, r.direction, 1)
    \o MirrorHits(r.origin, r.direction, placedMirrors, 1)
    \o AllObstacleHits(r.origin, r.direction, obstacles, 1)
    \o DetectorHits(r.origin, r.direction, detectors, 1)

\* the indices of the candidates c of r farther than EPSILON from its origin
Valid(r, c) ==
    {i \in 1..Len(c) : RLt(EPSILON, distance(r.origin, c[i].point))}

Closest(r) ==
    findClosestIntersection(r.origin, r.direction, placedMirrors, obstacles,
                            detectors)

\* found is none exactly when no candidate of c is valid, and otherwise a
\* valid candidate of c, with its distance, that no valid candidate is
\* closer than
MinimumOf(r, c, v, found) ==
    /\ found = <<>> <=> v = {}
    /\ found # <<>> =>
          /\ \E i \in v :
                /\ found[1].point = c[i].point
                /\ found[1].object = c[i].object
                /\ found[1].type = c[i].type
          /\ found[1].distance = distance(r.origin, found[1].point)
          /\ \A i \in v :
                RLe(found[1].distance, distance(r.origin, c[i].point))

MinimumFor(r, c) == MinimumOf(r, c, Valid(r, c), Closest(r))

C13_Closest == IsIteration => MinimumFor(Dequeued, Candidates(Dequeued))

\* the closest candidate is neither the first one found nor the first valid
\* one, and a candidate at the origin itself is passed over
PassedOver(r, c, v, found) ==
    /\ Cardinality(v) >= 3
    /\ \E i \in 1..Len(c) : i \notin v
    /\ \E i \in v :
          /\ RLt(found[1].distance, distance(r.origin, c[i].point))
          /\ \A j \in v : i <= j
    /\ found[1].type = "mirror"

PassedOverFor(r, c) == PassedOver(r, c, Valid(r, c), Closest(r))

C13_Witness == IsIteration /\ PassedOverFor(Dequeued, Candidates(Dequeued))

(***************************************************************************)
(* C14.  As claimed: an iteration whose query finds nothing appends        *)
(* exactly one segment, from the origin to the origin plus the direction   *)
(* times twice the diagonal of the arena, and enqueues nothing.            *)
(***************************************************************************)
\* the point at the given distance from the origin of r along its direction
Ahead(r, dist) == addPoints(r.origin, scaleVector(r.direction, dist))

ArenaDiagonal == distance(P(0, 0), P(GAME_WIDTH, GAME_HEIGHT))

C14_AsClaimed ==
    [][(IsIteration /\ last'.kind = "escape") =>
          /\ activeRays' = Tail(activeRays)
          /\ allSegmentsForThisSource' =
                 Append(allSegmentsForThisSource,
                        Segment(Dequeued.origin,
                                Ahead(Dequeued,
                                      RMul(I(2), ArenaDiagonal))))]_vars

(***************************************************************************)
(* C14, amended.  An iteration whose query finds nothing appends exactly   *)
(* one segment, from the origin to the origin plus the direction times     *)
(* twice the larger of the width and the height of the arena, and          *)
(* enqueues nothing.                                                       *)
(***************************************************************************)
LargerSide == IF GAME_WIDTH > GAME_HEIGHT THEN GAME_WIDTH ELSE GAME_HEIGHT

C14_Escape ==
    [][(IsIteration /\ last'.kind = "escape") =>
          /\ activeRays' = Tail(activeRays)
          /\ allSegmentsForThisSource' =
                 Append(allSegmentsForThisSource,
                        Segment(Dequeued.origin,
                                Ahead(Dequeued, I(2 * LargerSide))))]_vars

C14_Witness ==
    /\ last.kind = "escape"
    /\ last.ray.remainingInteractions >= 2
    /\ Len(allSegmentsForThisSource) >= 2
    /\ allSegmentsForThisSource[Len(allSegmentsForThisSource)].start
           = last.ray.origin
    /\ ~InArena(allSegmentsForThisSource[Len(allSegmentsForThisSource)].end)

(***************************************************************************)
(* C15.  The runs of the sources are independent: the segments and the     *)
(* hit-set a run returns are those of a run of that source alone on the    *)
(* scene, started with a fresh queue, visited-key set and hit-set; so the  *)
(* global hit-set and the overall success are determined by the set of     *)
(* sources, whatever their order; and a run leaves the scene unchanged.    *)
(***************************************************************************)
\* what the loop makes of a queue, given the segments, the hit-set and the
\* visited keys so far, on the scene as it is
RECURSIVE RunFrom(_, _, _, _), RunOn(_, _, _, _, _)
RunFrom(queue, segs, hits, seen) ==
    IF queue = <<>> THEN [segments |-> segs, hits |-> hits]
    ELSE IF \/ Head(queue).remainingInteractions <= 0
            \/ rayKey(Head(queue)) \in seen
    THEN RunFrom(Tail(queue), segs, hits, seen)
    ELSE RunOn(queue, segs, hits, seen,
               Propagate(Head(queue), Closest(Head(queue))))

\* the loop goes on after an iteration with outcome out
RunOn(queue, segs, hits, seen, out) ==
    RunFrom(Tail(queue) \o out.children, segs \o out.emitted,
            IF out.accepted THEN hits \cup {out.object} ELSE hits,
            seen \cup {rayKey(Head(queue))})

\* the run of one source alone
Alone(source) ==
    RunFrom(<<[origin |-> source.position,
               direction |-> source.initialDirection,
               remainingInteractions |-> MAX_REFLECTIONS,
               parent |-> NoParent]>>, <<>>, {}, {})

\* the runs of the sources of the scene, each alone
Runs == [i \in 1..Len(sources) |-> Alone(sources[i])]

\* the union of the hit-sets of the runs rs
HitsOf(rs) == UNION {rs[i].hits : i \in 1..Len(rs)}

Returned(alone) ==
    /\ allSegmentsForThisSource = alone.segments
    /\ correctlyHitDetectorIdsThisSource = alone.hits

Settled(rs) ==
    /\ masterCorrectlyHitDetectorIds = HitsOf(rs)
    /\ laserPaths = [i \in 1..Len(sources) |-> rs[i].segments]
    /\ overallSuccess = (DetectorIds \subseteq HitsOf(rs))

\* what a finished run returns, and what the recompute has settled on
ReturnsAsAlone ==
    /\ (pc = "run" /\ activeRays = <<>>) =>
          Returned(Alone(sources[srcIdx]))
    /\ (pc = "idle" /\ Len(sources) > 0 /\ Len(detectors) > 0) =>
          Settled(Runs)

C15_Independent ==
    /\ []ReturnsAsAlone
    /\ [][pc = "run" => UNCHANGED scene]_vars

\* the run of a later source has returned a hit-set that differs from the
\* one of the run before it, both non-empty
C15_Witness ==
    /\ pc = "run"
    /\ activeRays = <<>>
    /\ srcIdx >= 2
    /\ correctlyHitDetectorIdsThisSource # {}
    /\ returnedHits[srcIdx - 1] # {}
    /\ returnedHits[srcIdx - 1] \cap correctlyHitDetectorIdsThisSource = {}
    /\ Len(allSegmentsForThisSource) >= 1

(***************************************************************************)
(* C17.  The key of a state is its origin and direction, each coordinate   *)
(* rounded to 3 decimals, and its budget.  A state dequeued with a         *)
(* positive budget is discarded, emitting no segment and enqueuing no      *)
(* child, exactly when its key is the key of a state already processed in  *)
(* the run; a state that is processed has a key no processed state had.    *)
(***************************************************************************)
\* key = <<negative, k>> is the sign of a and |a| rounded to k thousandths
\* (halves upwards)
Rounds(a, key) ==
    /\ key[1] = (a[1] < 0)
    /\ RLe(Q(2 * key[2] - 1, 2000), RAbs(a))
    /\ RLt(RAbs(a), Q(2 * key[2] + 1, 2000))

KeyAsClaimed(r, key) ==
    /\ Len(key) = 5
    /\ Rounds(r.origin.x, key[1])
    /\ Rounds(r.origin.y, key[2])
    /\ Rounds(r.direction.x, key[3])
    /\ Rounds(r.direction.y, key[4])
    /\ key[5] = r.remainingInteractions

C17_VisitedKeys ==
    [][(IsIteration /\ Dequeued.remainingInteractions > 0) =>
          /\ KeyAsClaimed(Dequeued, rayKey(Dequeued))
          /\ rayKey(Dequeued) \in processedRayStarts =>
                /\ activeRays' = Tail(activeRays)
                /\ UNCHANGED <<allSegmentsForThisSource, processedRayStarts,
                               correctlyHitDetectorIdsThisSource>>
          /\ rayKey(Dequeued) \notin processedRayStarts =>
                /\ allSegmentsForThisSource' # allSegmentsForThisSource
                /\ processedRayStarts' =
                       processedRayStarts \cup {rayKey(Dequeued)}]_vars

\* a state has been discarded for its key, with states still queued
C17_Witness ==
    /\ last.kind = "visited"
    /\ last.ray.remainingInteractions > 0
    /\ rayKey(last.ray) \in processedRayStarts
    /\ activeRays # <<>>
    /\ Cardinality(processedRayStarts) >= 2

(***************************************************************************)
(* C18.  A state that is processed (dequeued with a positive budget and    *)
(* not discarded as visited) emits exactly one segment, which starts at    *)
(* the origin of the state; a state that is not processed emits none; so   *)
(* throughout a run the number of emitted segments is the number of        *)
(* processed states.                                                       *)
(***************************************************************************)
Processed(r) ==
    r.remainingInteractions > 0 /\ rayKey(r) \notin processedRayStarts

C18_OneSegment ==
    /\ [][IsIteration =>
             IF Processed(Dequeued)
             THEN /\ Len(allSegmentsForThisSource')
                        = Len(allSegmentsForThisSource) + 1
                  /\ SubSeq(allSegmentsForThisSource', 1,
                            Len(allSegmentsForThisSource))
                        = allSegmentsForThisSource
                  /\ allSegmentsForThisSource'
                        [Len(allSegmentsForThisSource')].start
                        = Dequeued.origin
             ELSE UNCHANGED allSegmentsForThisSource]_vars
    /\ [](pc = "run" =>
             Len(allSegmentsForThisSource) = Cardinality(processedRayStarts))

\* an iteration has emitted nothing, after iterations that emitted segments
C18_Witness ==
    /\ pc = "run"
    /\ last.emitted = <<>>
    /\ last.kind # "none"
    /\ Len(allSegmentsForThisSource) >= 3
    /\ Len(allSegmentsForThisSource) = Cardinality(processedRayStarts)

(***************************************************************************)
(* C19.  A processed state enqueues at most 1 child on a hit of a boundary *)
(* or of a plain mirror, at most 2 on a hit of a beam splitter, at most 3  *)
(* on a hit of a diffraction grating, and none on any other outcome; so    *)
(* the states processed in a run with budget b number at most              *)
(* 3^(MAX_REFLECTIONS - b), and a source emits at most                     *)
(* 1 + 3 + ... + 3^(MAX_REFLECTIONS - 1) segments.                         *)
(***************************************************************************)
BranchingBound(step) ==
    IF step.kind # "hit" THEN 0
    ELSE IF step.type = "boundary" THEN 1
    ELSE IF step.type = "mirror"
    THEN IF step.mirrorType = "default" THEN 1
         ELSE IF step.mirrorType = "beam-splitter" THEN 2
         ELSE IF step.mirrorType = "diffraction-grating" THEN 3
         ELSE 0
    ELSE 0

RECURSIVE GeometricSum(_)
GeometricSum(n) == IF n = 0 THEN 0 ELSE 3 * GeometricSum(n - 1) + 1

ProcessedWithBudget(b) == {key \in processedRayStarts : key[5] = b}

C19_Branching ==
    /\ [][IsIteration =>
             /\ Len(last'.children) <= BranchingBound(last')
             /\ Len(activeRays') = Len(activeRays) - 1 + Len(last'.children)]_vars
    /\ [](pc = "run" =>
             /\ \A b \in 1..MAX_REFLECTIONS :
                   Cardinality(ProcessedWithBudget(b))
                      <= 3 ^ (MAX_REFLECTIONS - b)
             /\ Len(allSegmentsForThisSource)
                   <= GeometricSum(MAX_REFLECTIONS))

\* a grating has sent on three rays, a beam splitter two, and a generation
\* of the run holds more than one processed state
C19_Witness ==
    /\ pc = "run"
    /\ last.kind = "hit"
    /\ last.mirrorType = "diffraction-grating"
    /\ Len(last.children) = 3
    /\ \E b \in 1..MAX_REFLECTIONS : Cardinality(ProcessedWithBudget(b)) >= 2

(***************************************************************************)
(* C20.  Among the valid candidates at the least distance from the origin  *)
(* of the ray, the query returns the one that comes first in the order:    *)
(* boundaries (top, bottom, left, right), then mirrors in list order, then *)
(* obstacles in list order, then detectors in list order.                  *)
(***************************************************************************)
IterationOrder == <<"boundary", "mirror", "obstacle", "detector">>

BoundaryOrder ==
    <<"top_boundary", "bottom_boundary", "left_boundary", "right_boundary">>

PlaceIn(list, x) == CHOOSE i \in 1..Len(list) : list[i] = x

\* the place of a candidate in the order of the claim
Rank(h) ==
    << PlaceIn(IterationOrder, h.type),
       IF h.type = "boundary" THEN PlaceIn(BoundaryOrder, h.object.name)
       ELSE IF h.type = "mirror" THEN PlaceIn(placedMirrors, h.object)
       ELSE IF h.type = "obstacle" THEN PlaceIn(obstacles, h.object)
       ELSE PlaceIn(detectors, h.object) >>

Before(a, b) == a[1] < b[1] \/ (a[1] = b[1] /\ a[2] < b[2])

Tie(r, a, b) ==
    /\ ~RLt(distance(r.origin, a.point), distance(r.origin, b.point))
    /\ ~RLt(distance(r.origin, b.point), distance(r.origin, a.point))

FirstOfTie(r, c, v, found) ==
    found # <<>> =>
       \A i \in v : Tie(r, found[1], c[i]) => ~Before(Rank(c[i]), Rank(found[1]))

FirstOfLevelFor(r, c) == FirstOfTie(r, c, Valid(r, c), Closest(r))

C20_TieBreak ==
    IsIteration =>
       /\ MinimumFor(Dequeued, Candidates(Dequeued))
       /\ FirstOfLevelFor(Dequeued, Candidates(Dequeued))

\* two valid candidates of different objects lie at the least distance
Tied(r, c, v, found) ==
    /\ found # <<>>
    /\ \E i \in v :
          /\ Tie(r, found[1], c[i])
          /\ Before(Rank(found[1]), Rank(c[i]))

TiedFor(r, c) == Tied(r, c, Valid(r, c), Closest(r))

C20_Witness ==
    /\ IsIteration
    /\ Dequeued.remainingInteractions > 0
    /\ TiedFor(Dequeued, Candidates(Dequeued))
    /\ Closest(Dequeued)[1].type = "mirror"

(***************************************************************************)
(* C12.  As claimed: if overall success is true and some detector is       *)
(* reached by accepted rays only along lineages that interact with one     *)
(* placed mirror, then once that mirror is deleted and the recompute has   *)
(* run, overall success is false.                                          *)
(***************************************************************************)
\* a queued state with the mirrors its lineage has met
Traced(ray, via) == [ray |-> ray, via |-> via]

\* the accepted hits <<detector, mirrors met>> of a run over the given
\* mirrors
RECURSIVE LineagesFrom(_, _, _, _), LineagesOn(_, _, _, _, _)
LineagesFrom(mirrors, queue, seen, acc) ==
    IF queue = <<>> THEN acc
    ELSE IF \/ Head(queue).ray.remainingInteractions <= 0
            \/ rayKey(Head(queue).ray) \in seen
    THEN LineagesFrom(mirrors, Tail(queue), seen, acc)
    ELSE LineagesOn(mirrors, queue, seen, acc,
                    Propagate(Head(queue).ray,
                              findClosestIntersection(
                                  Head(queue).ray.origin,
                                  Head(queue).ray.direction,
                                  mirrors, obstacles, detectors)))

LineagesOn(mirrors, queue, seen, acc, out) ==
    LineagesFrom(mirrors,
        Tail(queue)
        \o [i \in 1..Len(out.children) |->
               Traced(out.children[i],
                      IF out.type = "mirror"
                      THEN Head(queue).via \cup {out.object}
                      ELSE Head(queue).via)],
        seen \cup {rayKey(Head(queue).ray)},
        IF out.accepted THEN acc \cup {<<out.object, Head(queue).via>>}
        ELSE acc)

Lineages(mirrors) ==
    UNION {LineagesFrom(mirrors, <<Traced(SeedRay(sources[i]), {})>>, {}, {}) :
             i \in 1..Len(sources)}

\* some detector is reached, and only along lineages that meet the mirror
OnlyBy(lineages, mirrorId) ==
    \E d \in DetectorIds :
       /\ \E l \in lineages : l[1] = d
       /\ \A l \in lineages : l[1] = d => mirrorId \in l[2]

Without(mirrors, mirrorId) == SelectSeq(mirrors, LAMBDA m : m.id # mirrorId)

\* some detector is reached by no accepted ray
Unreached(lineages) ==
    \E d \in DetectorIds : \A l \in lineages : l[1] # d

\* a placed mirror was deleted when overall success was true and settled,
\* and the recompute for the list without it has run
Recomputed ==
    /\ pc = "idle"
    /\ rendered.placedMirrors = placedMirrors
    /\ lastEvent.kind = "delete"
    /\ lastEvent.settled
    /\ lastEvent.success
    /\ \E i \in 1..Len(lastEvent.mirrors) :
          lastEvent.mirrors[i].id = lastEvent.id

C12_AsClaimed ==
    (Recomputed /\ OnlyBy(Lineages(lastEvent.mirrors), lastEvent.id))
       => ~overallSuccess

(***************************************************************************)
(* C12.  If overall success is true and some detector is reached by no     *)
(* accepted ray when one placed mirror is taken away, then once that       *)
(* mirror is deleted and the recompute has run, overall success is false.  *)
(***************************************************************************)
C12_Unreachable ==
    (Recomputed
     /\ Unreached(Lineages(Without(lastEvent.mirrors, lastEvent.id))))
       => ~overallSuccess

\* the mirror that sent the ray into a detector has been deleted
C12_Witness ==
    /\ Recomputed
    /\ OnlyBy(Lineages(lastEvent.mirrors), lastEvent.id)
    /\ Unreached(Lineages(Without(lastEvent.mirrors, lastEvent.id)))
    /\ Len(placedMirrors) = Len(lastEvent.mirrors) - 1
    /\ ~overallSuccess

(***************************************************************************)
(* C16.  As claimed: whatever drops, drags, deletions and resets are       *)
(* handled, two drops with no render between them included, at most        *)
(* MAX_PLACED_MIRRORS mirrors are placed; and a drop handled when          *)
(* MAX_PLACED_MIRRORS mirrors are placed, or with an id that is no         *)
(* template, leaves the placed mirrors as they are.                        *)
(***************************************************************************)
PaletteIds ==
    {INITIAL_PALETTE_MIRRORS[i].id : i \in 1..Len(INITIAL_PALETTE_MIRRORS)}

DropHandled == events' = events + 1 /\ lastEvent'.kind = "drop"

C16_AsClaimed ==
    /\ [](Len(placedMirrors) <= MAX_PLACED_MIRRORS)
    /\ [][(/\ DropHandled
           /\ \/ Len(placedMirrors) >= MAX_PLACED_MIRRORS
              \/ lastEvent'.id \notin PaletteIds)
          => placedMirrors' = placedMirrors]_vars

(***************************************************************************)
(* C21.  A ray that hits a plain mirror with budget - 1 > 0 enqueues       *)
(* exactly one child, at the hit point, with the budget less one and the   *)
(* mirror image of the incoming direction; when the mirror is              *)
(* perpendicular to the ray, the child goes exactly backwards.  So a ray   *)
(* from (0, 300) along (1, 0) meets the mirror (400, 260)-(400, 340) at    *)
(* (400, 300) and its child goes along (-1, 0).                            *)
(***************************************************************************)
Perpendicular(d, p1, p2) == dotProduct(d, subtractPoints(p2, p1)) = I(0)

Reverse(d) == Pt(RNeg(d.x), RNeg(d.y))

\* the iteration on a ray from origin along direction, with the mirrors
\* given and nothing else on the board
Alone21(origin, direction, mirrors) ==
    Propagate(Ray(origin, direction, MAX_REFLECTIONS, NoParent),
              findClosestIntersection(origin, direction, mirrors, <<>>, <<>>))

PlainExample(out) ==
    /\ out.kind = "hit"
    /\ out.mirrorType = "default"
    /\ out.point = P(400, 300)
    /\ BareQueue(out.children)
          = <<Child(P(400, 300), P(-1, 0), MAX_REFLECTIONS - 1)>>

PlainReflects(r, out, mirror) ==
    /\ BareQueue(out.children)
          = <<Child(out.point, Mirrored(r.direction, mirror.p1, mirror.p2),
                    r.remainingInteractions - 1)>>
    /\ Perpendicular(r.direction, mirror.p1, mirror.p2)
          => out.children[1].direction = Reverse(r.direction)

C21_Plain ==
    /\ [][(/\ IsIteration
           /\ last'.mirrorType = "default"
           /\ Dequeued.remainingInteractions - 1 > 0)
          => PlainReflects(Dequeued, last', MirrorOf(last'.object))]_vars
    /\ [](PlainExample(Alone21(P(0, 300), P(1, 0), <<M1>>)))

\* a plain mirror across the ray has sent it straight back
C21_Witness ==
    /\ last.kind = "hit"
    /\ last.mirrorType = "default"
    /\ last.ray.remainingInteractions - 1 > 0
    /\ Len(last.children) = 1
    /\ Perpendicular(last.ray.direction, MirrorOf(last.object).p1,
                     MirrorOf(last.object).p2)
    /\ last.children[1].direction = Reverse(last.ray.direction)
    /\ last.children[1].direction # last.ray.direction

(***************************************************************************)
(* C22.  Whether a detector hit is accepted depends on the direction of    *)
(* the ray and the entry angle of the detector only, not on the edge of    *)
(* the detector the ray reached: a ray with the same direction that        *)
(* reaches the same detector through another edge gets the same result,    *)
(* so a ray entering through a side or back edge is accepted when its      *)
(* direction lies in the cone.                                             *)
(***************************************************************************)
\* displacements of the origin that carry a ray over to another edge
Offsets == {P(18, 0), P(-18, 0), P(0, 18), P(0, -18)}

\* the iteration on the ray r displaced by offset, with the detector alone
\* on the board
Displaced(r, offset, detector) ==
    Propagate(Ray(addPoints(r.origin, offset), r.direction,
                  r.remainingInteractions, NoParent),
              findClosestIntersection(addPoints(r.origin, offset),
                                      r.direction, <<>>, <<>>, <<detector>>))

\* the edges of the detector that the point lies on
EdgesAt(point, detector) ==
    {e \in {"left", "right", "top", "bottom"} :
        \/ e = "left" /\ point.x = detector.x
        \/ e = "right" /\ point.x = RAdd(detector.x, detector.width)
        \/ e = "top" /\ point.y = detector.y
        \/ e = "bottom" /\ point.y = RAdd(detector.y, detector.height)}

SameResult(step, out) ==
    out.type = "detector" => out.accepted = step.accepted

C22_EdgeBlind ==
    last.type = "detector" =>
       \A offset \in Offsets :
          SameResult(last, Displaced(last.ray, offset, DetectorOf(last.object)))

\* the displaced ray has reached the detector through another edge, one
\* that does not face the required direction
OtherEdge(step, out, detector) ==
    /\ out.type = "detector"
    /\ EdgesAt(out.point, detector) \cap EdgesAt(step.point, detector) = {}
    /\ EdgesAt(out.point, detector) # {}
    /\ ~onEntryEdge(out.point, detector)
    /\ out.accepted

C22_Witness ==
    /\ last.type = "detector"
    /\ last.accepted
    /\ \E offset \in Offsets :
          OtherEdge(last, Displaced(last.ray, offset, DetectorOf(last.object)),
                    DetectorOf(last.object))

(***************************************************************************)
(* C23.  The queue of a run is seeded with the one state (source.position, *)
(* source.initialDirection, MAX_REFLECTIONS) and served first in, first    *)
(* out: the budgets of the queued states never increase along the queue,   *)
(* and a state is processed only when no state processed before it in the  *)
(* run had a smaller budget; so in the segment list of a source the        *)
(* budgets of the emitting states are non-increasing.                      *)
(***************************************************************************)
RunStarts == pc' = "run" /\ (pc # "run" \/ srcIdx' # srcIdx)

Seeded(source, queue) ==
    BareQueue(queue)
       = <<Child(source.position, source.initialDirection, MAX_REFLECTIONS)>>

NonIncreasing(queue) ==
    \A i \in 1..Len(queue) : \A j \in i..Len(queue) :
       queue[i].remainingInteractions >= queue[j].remainingInteractions

C23_Fifo ==
    /\ [][RunStarts => Seeded(sources[srcIdx'], activeRays')]_vars
    /\ [][(IsIteration /\ Processed(Dequeued)) =>
             \A key \in processedRayStarts :
                key[5] >= Dequeued.remainingInteractions]_vars
    /\ [](pc = "run" => NonIncreasing(activeRays))

\* states of two generations wait in the queue, behind segments of two
\* generations
C23_Witness ==
    /\ pc = "run"
    /\ Len(activeRays) >= 3
    /\ activeRays[1].remainingInteractions
          > activeRays[Len(activeRays)].remainingInteractions
    /\ \E k1, k2 \in processedRayStarts : k1[5] > k2[5]

(***************************************************************************)
(* C24.  A child state never meets first the surface it starts on: what    *)
(* the reflected child of a mirror or boundary, or the transmitted child   *)
(* of a beam splitter or grating, meets first, if it meets anything, is    *)
(* farther than epsilon from its origin, is not the point it started       *)
(* from, and is no mirror or boundary that passes through that point.      *)
(***************************************************************************)
IsChild(r) == r.parent # NoParent

Cross(a, b) == RSub(RMul(a.x, b.y), RMul(a.y, b.x))

\* the point lies on the segment from p1 to p2
OnSegment(point, p1, p2) ==
    /\ Cross(subtractPoints(point, p1), subtractPoints(p2, p1)) = I(0)
    /\ RLe(I(0), dotProduct(subtractPoints(point, p1), subtractPoints(p2, p1)))
    /\ RLe(I(0), dotProduct(subtractPoints(point, p2), subtractPoints(p1, p2)))

\* the mirror or boundary of the hit passes through the point
Through(hit, point) ==
    /\ hit.type \in {"mirror", "boundary"}
    /\ OnSegment(point, hit.object.p1, hit.object.p2)

LeavesSurface(r, found) ==
    found # <<>> =>
       /\ RLt(EPSILON, found[1].distance)
       /\ found[1].point # r.origin
       /\ ~Through(found[1], r.origin)

C24_NoSelfHit ==
    (IsIteration /\ IsChild(Dequeued)) =>
       LeavesSurface(Dequeued, Closest(Dequeued))

\* the candidates of r hold the splitting mirror r starts on, at no
\* distance, and r has met something else
StartsOnSplitter(r, c, v) ==
    \E i \in 1..Len(c) :
       /\ i \notin v
       /\ c[i].type = "mirror"
       /\ c[i].object.type \in {"beam-splitter", "diffraction-grating"}
       /\ c[i].point = r.origin

StartsOnSplitterFor(r, c) == StartsOnSplitter(r, c, Valid(r, c))

C24_Witness ==
    /\ last.kind = "hit"
    /\ IsChild(last.ray)
    /\ last.point # last.ray.origin
    /\ StartsOnSplitterFor(last.ray, Candidates(last.ray))

(***************************************************************************)
(* C25.  After a change to the scene the recompute effect runs finitely    *)
(* often and then rests; at rest the stored laser paths, the hit-set and   *)
(* the overall-success flag are the result of the engine for the scene as  *)
(* it is, with nothing of the scene before.                                *)
(***************************************************************************)
\* the component has rendered the scene as it is, and no effect is due
AtRest ==
    /\ pc = "idle"
    /\ rendered.placedMirrors = placedMirrors
    /\ rendered.levelSeed = levelSeed

\* the stored results are those of the engine for the scene as it is
Fresh ==
    IF Len(sources) = 0 \/ Len(detectors) = 0 THEN ~overallSuccess
    ELSE Settled(Runs)

C25_Settles ==
    /\ (~AtRest) ~> (AtRest /\ Fresh)
    /\ [](AtRest => Fresh)

\* a handler changed the mirrors of a settled, successful scene, and the
\* results at rest are those of the new scene: success is gone
C25_Witness ==
    /\ AtRest
    /\ Fresh
    /\ lastEvent.kind \in {"drop", "move", "delete"}
    /\ lastEvent.settled
    /\ lastEvent.success
    /\ lastEvent.mirrors # placedMirrors
    /\ ~overallSuccess

(***************************************************************************)
(* C26.  In the segment list of a source the first segment starts at the   *)
(* position of the source, and every later segment starts at the end of    *)
(* an earlier segment of the list whose hit was a boundary or a mirror;    *)
(* no segment starts at the end of an escape segment.  Step by step: the   *)
(* states an iteration pushes start at the end of the segment it emits,    *)
(* and it pushes them only on a hit of a boundary or a mirror.             *)
(***************************************************************************)
\* what a ray along the segment meets first: "boundary", "mirror",
\* "obstacle", "detector", or "" when it escapes
HitOf(found) == IF found = <<>> THEN "" ELSE found[1].type

HitKind(seg) ==
    HitOf(findClosestIntersection(seg.start,
              normalizeVector(subtractPoints(seg.end, seg.start)),
              placedMirrors, obstacles, detectors))

Chained(segs, kinds, source) ==
    /\ segs # <<>> => segs[1].start = source.position
    /\ \A i \in 2..Len(segs) :
          \E j \in 1..(i - 1) :
             /\ segs[j].end = segs[i].start
             /\ kinds[j] \in {"boundary", "mirror"}
    /\ \A i \in 1..Len(segs) : \A j \in 1..Len(segs) :
          kinds[j] = "" => segs[i].start # segs[j].end

RECURSIVE KindsFrom(_, _)
KindsFrom(segs, j) ==
    IF j > Len(segs) THEN <<>>
    ELSE <<HitKind(segs[j])>> \o KindsFrom(segs, j + 1)

KindsOf(segs) == KindsFrom(segs, 1)

C26_Chained ==
    /\ [][IsIteration =>
             /\ \A i \in 1..Len(last'.children) :
                   /\ last'.type \in {"boundary", "mirror"}
                   /\ last'.children[i].origin = last'.point
                   /\ allSegmentsForThisSource'
                         [Len(allSegmentsForThisSource')].end = last'.point
             /\ last'.kind = "escape" => last'.children = <<>>]_vars
    /\ []((pc = "run" /\ activeRays = <<>>) =>
             Chained(allSegmentsForThisSource,
                     KindsOf(allSegmentsForThisSource), sources[srcIdx]))

\* a finished run whose list holds an escape segment and a segment
\* that starts where an earlier one hit a boundary or a mirror
Branched(segs, kinds) ==
    /\ Len(segs) >= 2
    /\ \E j \in 1..Len(segs) : kinds[j] = ""
    /\ \E i \in 2..Len(segs) : \E j \in 1..(i - 1) :
          segs[j].end = segs[i].start /\ kinds[j] \in {"boundary", "mirror"}

C26_Witness ==
    /\ pc = "run"
    /\ activeRays = <<>>
    /\ Branched(allSegmentsForThisSource, KindsOf(allSegmentsForThisSource))

(***************************************************************************)
(* C27.  A detector id is in the hit-set of a source only if a segment     *)
(* emitted for that source ends on that detector and the direction of the  *)
(* segment passes the acceptance test.  So the global hit-set holds only   *)
(* ids of detectors of the scene, and a detector that no segment of any    *)
(* source ends on (it is behind an obstacle or another detector for every  *)
(* ray) is never in it.                                                    *)
(***************************************************************************)
FoundAlong(seg) ==
    findClosestIntersection(seg.start,
        normalizeVector(subtractPoints(seg.end, seg.start)),
        placedMirrors, obstacles, detectors)

EndsOn(seg, found, id) ==
    /\ found # <<>>
    /\ found[1].type = "detector"
    /\ found[1].object.id = id
    /\ found[1].point = seg.end

Passes(seg, id) ==
    RLt(acceptanceThresholdCosine,
        dotProduct(normalizeVector(subtractPoints(seg.end, seg.start)),
                   RequiredDirection(DetectorOf(id).angle)))

Justified(segs, id) ==
    \E j \in 1..Len(segs) :
       EndsOn(segs[j], FoundAlong(segs[j]), id) /\ Passes(segs[j], id)

Reached(id) ==
    \E i \in 1..Len(laserPaths) : \E j \in 1..Len(laserPaths[i]) :
       EndsOn(laserPaths[i][j], FoundAlong(laserPaths[i][j]), id)

Drawn == pc = "idle" /\ Len(sources) > 0 /\ Len(detectors) > 0

C27_HitSetSound ==
    /\ pc = "run" =>
          \A id \in correctlyHitDetectorIdsThisSource :
             id \in DetectorIds /\ Justified(allSegmentsForThisSource, id)
    /\ newMaster \subseteq DetectorIds
    /\ masterCorrectlyHitDetectorIds \subseteq DetectorIds
    /\ Drawn =>
          /\ \A id \in masterCorrectlyHitDetectorIds :
                \E i \in 1..Len(laserPaths) : Justified(laserPaths[i], id)
          /\ \A id \in DetectorIds :
                ~Reached(id) => id \notin masterCorrectlyHitDetectorIds

\* the segment is aimed at the detector: with the obstacles and the other
\* detectors taken away it would end on it
AimedAt(seg, id) ==
    \E found \in {findClosestIntersection(seg.start,
                      normalizeVector(subtractPoints(seg.end, seg.start)),
                      placedMirrors, <<>>, <<DetectorOf(id)>>)} :
       found # <<>> /\ found[1].type = "detector"

Hidden(id) ==
    /\ ~Reached(id)
    /\ \E i \in 1..Len(laserPaths) : \E j \in 1..Len(laserPaths[i]) :
          AimedAt(laserPaths[i][j], id)

\* a drawn scene with a detector in the hit-set and a detector that a
\* segment is aimed at but that something in front of it keeps out
C27_Witness ==
    /\ Drawn
    /\ masterCorrectlyHitDetectorIds # {}
    /\ \E id \in DetectorIds : Hidden(id)

(***************************************************************************)
(* C28.  As claimed: a mouse-up or touch-end always ends the drag (the     *)
(* dragging state and the pointer-over-trash flag are cleared); it removes *)
(* the dragged mirror from the placed mirrors if and only if a drag was in *)
(* progress and the pointer was over the trash; and every other placed     *)
(* mirror keeps its id, type and end points.                               *)
(***************************************************************************)
MouseUpHandled ==
    events' = events + 1 /\ lastEvent'.kind \in {"up", "delete"}

DragOverTrash == draggingMirrorInfo # <<>> /\ isPointerOverTrash

C28_AsClaimed ==
    [][MouseUpHandled =>
          /\ draggingMirrorInfo' = <<>>
          /\ isPointerOverTrash' = FALSE
          /\ placedMirrors' =
                IF DragOverTrash
                THEN Without(placedMirrors, draggingMirrorInfo[1].mirror.id)
                ELSE placedMirrors
          /\ DragOverTrash => Len(placedMirrors') = Len(placedMirrors) - 1]_vars

(***************************************************************************)
(* Degenerate inputs of the kernel and of calculateLaserPathsForSource:    *)
(* sources whose direction is the zero vector, a mirror collapsed to a     *)
(* point (an end point dragged onto the other one) and a mirror lying      *)
(* along the ray.                                                          *)
(***************************************************************************)
Zero == P(0, 0)

\* zero direction: on the ray of s1, at the centre of o3, on the left wall
Z1 == Source("z1", P(20, 300), Zero)
Z2 == Source("z2", P(300, 200), Zero)
Z3 == Source("z3", P(0, 300), Zero)

\* collapsed onto (400, 300), and lying along the ray of s1
Kc == Mirror("kc", P(400, 300), P(400, 300), "default")
Kp == Mirror("kp", P(200, 300), P(280, 300), "beam-splitter")

DegenerateLevels ==
    << Level(<<Z1>>, <<D1>>, <<>>, <<Kc, Kp, M1>>),
       Level(<<S1, Z2>>, <<D1, D2>>, <<O3>>, <<Kc, Kp, B1>>),
       Level(<<Z3, S1>>, <<D1>>, <<O1, O2>>, <<Kp, Kc, G2>>) >>

DegenerateInit ==
    \E lvl \in 1..Len(DegenerateLevels) :
       \E mirrors \in MirrorChoices(DegenerateLevels[lvl].pool) :
          Mounted(DegenerateLevels[lvl].sources,
                  DegenerateLevels[lvl].detectors,
                  DegenerateLevels[lvl].obstacles, mirrors)

DegenerateSpec == DegenerateInit /\ [][Next]_vars

(***************************************************************************)
(* C29.  Degenerate inputs give no hit and no error:                       *)
(* raySegmentIntersection returns none for a segment of length zero, for   *)
(* a segment parallel to the ray and for the zero direction, and           *)
(* normalizeVector returns the zero vector for a vector of magnitude below *)
(* epsilon.  So a ray state with the zero direction ends its branch: it    *)
(* emits one segment and enqueues no child.                                *)
(***************************************************************************)
\* vectors of magnitude below epsilon
SmallVectors ==
    { Zero, Pt(Q(1, 2000000), I(0)), Pt(I(0), Q(-1, 2000000)),
      Pt(Q(3, 10000000), Q(4, 10000000)),
      Pt(Q(-3, 6250000), Q(-4, 6250000)) }

Collapsed(m) == m.p1 = m.p2

ParallelTo(d, m) == Cross(d, subtractPoints(m.p2, m.p1)) = I(0)

Degenerate(r, m) == Collapsed(m) \/ ParallelTo(r.direction, m)

\* the sides of the obstacles that are lines or rectangles
StraightObstacles == SelectSeq(obstacles, LAMBDA o : o.shape # "circle")

MeetsNoSegment(r) ==
    /\ BoundaryHits(r.origin, r.direction, 1) = <<>>
    /\ MirrorHits(r.origin, r.direction, placedMirrors, 1) = <<>>
    /\ AllObstacleHits(r.origin, r.direction, StraightObstacles, 1) = <<>>
    /\ DetectorHits(r.origin, r.direction, detectors, 1) = <<>>

NoDegenerateHit(r) ==
    /\ \A i \in 1..Len(placedMirrors) :
          Degenerate(r, placedMirrors[i]) =>
             raySegmentIntersection(r.origin, r.direction,
                 placedMirrors[i].p1, placedMirrors[i].p2) = <<>>
    /\ r.direction = Zero =>
          /\ MeetsNoSegment(r)
          /\ Closest(r) = <<>>
          /\ normalizeVector(r.direction) = Zero

EndsBranch(r) ==
    /\ last'.kind = "escape"
    /\ last'.children = <<>>
    /\ activeRays' = Tail(activeRays)
    /\ allSegmentsForThisSource' =
          Append(allSegmentsForThisSource, Segment(r.origin, r.origin))
    /\ correctlyHitDetectorIdsThisSource' = correctlyHitDetectorIdsThisSource

C29_Degenerate ==
    /\ [](\A v \in SmallVectors : normalizeVector(v) = Zero)
    /\ [](\A i \in 1..Len(placedMirrors) :
            Collapsed(placedMirrors[i]) =>
               /\ normalizeVector(subtractPoints(placedMirrors[i].p2,
                                                 placedMirrors[i].p1)) = Zero
               /\ segmentNormal(placedMirrors[i]) = Zero)
    /\ [](IsIteration => NoDegenerateHit(Dequeued))
    /\ [][(IsIteration /\ Processed(Dequeued) /\ Dequeued.direction = Zero)
            => EndsBranch(Dequeued)]_vars

\* the ray state of a source with the zero direction has been processed
\* on a board that holds the collapsed mirror and the mirror along the ray
C29_Witness ==
    /\ last.kind = "escape"
    /\ last.ray.direction = Zero
    /\ last.emitted = <<Segment(last.ray.origin, last.ray.origin)>>
    /\ \E i \in 1..Len(placedMirrors) : Collapsed(placedMirrors[i])
    /\ \E i \in 1..Len(placedMirrors) :
          ~Collapsed(placedMirrors[i]) /\ ParallelTo(P(1, 0), placedMirrors[i])

(***************************************************************************)
(* C30.  calculateReflection is an involution that keeps the length: for   *)
(* every unit direction d and unit normal n, reflecting d about n twice    *)
(* gives d again, the reflection has the length of d, and n and -n give    *)
(* the same reflection.  The directions are those of the ray states the    *)
(* loop dequeues, the normals those of the walls and of the placed         *)
(* mirrors; and the child a wall, a plain mirror or a beam splitter sends  *)
(* back goes along the reflection, which reflects back to the direction    *)
(* of its parent.                                                          *)
(***************************************************************************)
\* the directions tried against every normal of the scene are the unit
\* vectors whose coordinates have denominators up to MaxDenominator
MaxDenominator == 125

Magnitude(v) == Hypot(v.x, v.y)

IsUnit(v) ==
    /\ v.x[2] <= MaxDenominator
    /\ v.y[2] <= MaxDenominator
    /\ Magnitude(v) = I(1)

Normals ==
    {gameBoundaries[i].normal : i \in 1..Len(gameBoundaries)}
    \cup {segmentNormal(placedMirrors[i]) : i \in 1..Len(placedMirrors)}

Involution(d, n, reflected) ==
    /\ calculateReflection(reflected, n) = d
    /\ Magnitude(reflected) = Magnitude(d)
    /\ calculateReflection(d, scaleVector(n, I(-1))) = reflected

\* the normal of the surface the iteration has hit
HitNormal(step) ==
    IF step.type = "boundary"
    THEN gameBoundaries[PlaceIn(BoundaryOrder, step.object)].normal
    ELSE surfaceNormalForReflection(step.ray.direction, MirrorOf(step.object))

SentBack(step) ==
    /\ step.kind = "hit"
    /\ \/ step.type = "boundary"
       \/ step.type = "mirror" /\ step.mirrorType \in {"default", "beam-splitter"}
    /\ step.children # <<>>

C30_Involution ==
    /\ IsIteration =>
          \A n \in Normals :
             (IsUnit(Dequeued.direction) /\ IsUnit(n)) =>
                Involution(Dequeued.direction, n,
                           calculateReflection(Dequeued.direction, n))
    /\ SentBack(last) =>
          /\ last.children[1].direction =
                calculateReflection(last.ray.direction, HitNormal(last))
          /\ Involution(last.ray.direction, HitNormal(last),
                        last.children[1].direction)

\* a ray has been sent back by a mirror that is neither along nor across
\* it: the reflection is a new direction
C30_Witness ==
    /\ SentBack(last)
    /\ last.type = "mirror"
    /\ HitNormal(last).x # I(0)
    /\ HitNormal(last).y # I(0)
    /\ last.children[1].direction # last.ray.direction
    /\ last.children[1].direction # Reverse(last.ray.direction)

=============================================================================
